---- MODULE Spec2Model ----
(***************************************************************************)
(* rmw_dds_common: the graph cache (GraphCache) as a state machine.        *)
(*                                                                         *)
(* The cache holds three maps (data writers, data readers, participants),  *)
(* one change callback and one mutex.  Every public operation is modelled  *)
(* by a pure operator translated from its body, and by the steps a thread  *)
(* takes while it runs it: call, lock_guard acquisition, the body, the     *)
(* callback, lock release and return.                                      *)
(***************************************************************************)
EXTENDS Integers, Sequences, FiniteSets, TLC

VARIABLES
  data_writers_,        \* EntityGidToInfo: gid -> EntityInfo
  data_readers_,        \* EntityGidToInfo: gid -> EntityInfo
  participants_,        \* ParticipantToNodesMap: gid -> ParticipantInfo
  on_change_callback_,  \* std::function<void()>, NoCallback when empty
  mutex_,               \* the owner of the std::mutex, NoThread when free
  pc,                   \* position of each thread inside a cache operation
  cur,                  \* the operation each thread is running and its outcome
  ncalls,               \* calls made so far (bounds the exploration)
  invoked,              \* per callback: how often it has been invoked
  applied,              \* callback-triggering mutations applied so far
  committed,            \* the three maps as of the last release of the mutex
  net_added,            \* per map and gid: adds that returned true minus removes that did
  last_call,            \* per map and gid: the last add/remove call made on it
  toucher,              \* per map and gid: the thread(s) that called add/remove on it
  last_set              \* the callback named by the last set/clear call that ran

vars == <<data_writers_, data_readers_, participants_, on_change_callback_, mutex_,
          pc, cur, ncalls, invoked, applied, committed, net_added, last_call, toucher,
          last_set>>

(***************************************************************************)
(* Bounds and input domains.                                               *)
(***************************************************************************)
MaxOps == 3
\* Allocation requests of one call that may be the failing one.
MaxRequests == 9

Threads == {"t1", "t2"}
NoThread == "none"

\* rmw_gid_t: a byte array, here two bytes long.
E1 == <<0, 1>>
E2 == <<1, 0>>
P1 == <<0, 2>>
P2 == <<2, 0>>
EndpointGids == {E1, E2}
ParticipantGids == {P1, P2}
NoGid == <<>>

NoCallback == "nullptr"
Callbacks == {"f", "g"}
\* What the body of each registered callback does: "f" only observes, "g"
\* calls back into the same cache (get_names_and_types with an invalid
\* allocator, then clear_on_change_callback).
CallbackBody(cb) == IF cb = "g" THEN "reenter" ELSE "plain"

Enclaves == {"encA", "encB"}

(***************************************************************************)
(* Gid utilities (gid_utils.cpp).                                          *)
(***************************************************************************)
RECURSIVE LexLess(_, _)
LexLess(a, b) ==
  IF b = <<>> THEN FALSE
  ELSE IF a = <<>> THEN TRUE
  ELSE IF Head(a) < Head(b) THEN TRUE
  ELSE IF Head(b) < Head(a) THEN FALSE
  ELSE LexLess(Tail(a), Tail(b))

\* Compare_rmw_gid_t::operator()
Compare_rmw_gid_t(lhs, rhs) == LexLess(lhs, rhs)

\* memcpy of the bytes into the message / out of it
convert_gid_to_msg(gid) == [data |-> gid]
convert_msg_to_gid(msg_gid) == msg_gid.data

(***************************************************************************)
(* Records.                                                                *)
(***************************************************************************)
\* EntityInfo's constructor
EntityInfo(topic_name, topic_type, topic_type_hash, participant_gid, qos) ==
  [topic_name |-> topic_name, topic_type |-> topic_type,
   topic_type_hash |-> topic_type_hash, participant_gid |-> participant_gid,
   qos |-> qos]

\* rosidl_get_zero_initialized_type_hash()
ZeroTypeHash == [version |-> 0, value |-> 0]

\* ParticipantInfo, default constructed
ParticipantInfo == [node_entities_info_seq |-> <<>>, enclave |-> ""]

\* msg::NodeEntitiesInfo, default constructed with the two names set
NodeEntitiesInfo(node_namespace, node_name) ==
  [node_namespace |-> node_namespace, node_name |-> node_name,
   reader_gid_seq |-> <<>>, writer_gid_seq |-> <<>>]

\* The cache's data members as one value.
Cache(w, r, p, cb) ==
  [data_writers_ |-> w, data_readers_ |-> r, participants_ |-> p,
   on_change_callback_ |-> cb]

EmptyMap == <<>>

(***************************************************************************)
(* Standard-library operations used by the code.                           *)
(***************************************************************************)
\* Mutant: operator[]-style insertion, the element is (re)assigned and the
\* call always reports an insertion.
EmplaceAlwaysInserts(map, key, value) ==
  [map |-> [k \in DOMAIN map \cup {key} |-> IF k = key THEN value ELSE map[k]],
   second |-> TRUE]

\* Mutant: insert_or_assign, an existing element is overwritten.
EmplaceOverwrites(map, key, value) ==
  [map |-> [k \in DOMAIN map \cup {key} |-> IF k = key THEN value ELSE map[k]],
   second |-> key \notin DOMAIN map]

\* std::map::emplace: inserts only if the key is absent; .second tells which.
Emplace(map, key, value) ==
  IF key \in DOMAIN map
  THEN [map |-> map, second |-> FALSE]
  ELSE [map |-> [k \in DOMAIN map \cup {key} |-> IF k = key THEN value ELSE map[k]],
        second |-> TRUE]

\* std::map::erase(key): the number of elements removed.
Erase(map, key) ==
  IF key \in DOMAIN map
  THEN [map |-> [k \in DOMAIN map \ {key} |-> map[k]], count |-> 1]
  ELSE [map |-> map, count |-> 0]

\* std::find_if over a vector: the first matching position, Len+1 for end().
\* pred[i] is the predicate's value on seq[i].
FindIf(seq, pred) ==
  IF \E i \in 1..Len(seq) : pred[i]
  THEN CHOOSE i \in 1..Len(seq) : pred[i] /\ \A j \in 1..(i-1) : ~pred[j]
  ELSE Len(seq) + 1

\* std::vector::erase(iterator)
EraseAt(seq, i) == SubSeq(seq, 1, i-1) \o SubSeq(seq, i+1, Len(seq))

(***************************************************************************)
(* The change callback.                                                    *)
(***************************************************************************)
\* Mutant: the macro's condition is inverted.
CallbackIfNot(on_change_callback, condition) ==
  on_change_callback # NoCallback /\ ~condition

\* GRAPH_CACHE_CALL_ON_CHANGE_CALLBACK_IF: is the callback invoked?
GRAPH_CACHE_CALL_ON_CHANGE_CALLBACK_IF(on_change_callback, condition) ==
  on_change_callback # NoCallback /\ condition

\* GRAPH_CACHE_CALL_ON_CHANGE_CALLBACK
GRAPH_CACHE_CALL_ON_CHANGE_CALLBACK(on_change_callback) ==
  GRAPH_CACHE_CALL_ON_CHANGE_CALLBACK_IF(on_change_callback, TRUE)

\* What an operation leaves behind: the cache, the value it returns and
\* whether it invoked the callback.
Outcome(c, ret, callback) == [cache |-> c, ret |-> ret, callback |-> callback]

\* Mutant: a callback already registered is kept.
set_on_change_callback_keeps_first(c, callback) ==
  Outcome([c EXCEPT !.on_change_callback_ =
             IF @ = NoCallback THEN callback ELSE @], "void", FALSE)

\* GraphCache::set_on_change_callback
set_on_change_callback(c, callback) ==
  Outcome([c EXCEPT !.on_change_callback_ = callback], "void", FALSE)

\* GraphCache::clear_on_change_callback
clear_on_change_callback(c) ==
  Outcome([c EXCEPT !.on_change_callback_ = NoCallback], "void", FALSE)

(***************************************************************************)
(* DDS discovery plane.                                                    *)
(***************************************************************************)
\* Mutant: the record is keyed by the participant's gid.
add_writer_by_participant(c, gid, topic_name, type_name, type_hash, participant_gid, qos) ==
  LET pair == Emplace(c.data_writers_, participant_gid,
                      EntityInfo(topic_name, type_name, type_hash, participant_gid, qos))
  IN Outcome([c EXCEPT !.data_writers_ = pair.map], pair.second,
             GRAPH_CACHE_CALL_ON_CHANGE_CALLBACK_IF(c.on_change_callback_, pair.second))

\* GraphCache::add_writer
add_writer(c, gid, topic_name, type_name, type_hash, participant_gid, qos) ==
  LET pair == Emplace(c.data_writers_, gid,
                      EntityInfo(topic_name, type_name, type_hash, participant_gid, qos))
  IN Outcome([c EXCEPT !.data_writers_ = pair.map], pair.second,
             GRAPH_CACHE_CALL_ON_CHANGE_CALLBACK_IF(c.on_change_callback_, pair.second))

\* GraphCache::add_reader
add_reader(c, gid, topic_name, type_name, type_hash, participant_gid, qos) ==
  LET pair == Emplace(c.data_readers_, gid,
                      EntityInfo(topic_name, type_name, type_hash, participant_gid, qos))
  IN Outcome([c EXCEPT !.data_readers_ = pair.map], pair.second,
             GRAPH_CACHE_CALL_ON_CHANGE_CALLBACK_IF(c.on_change_callback_, pair.second))

\* GraphCache::add_entity
add_entity(c, gid, topic_name, type_name, type_hash, participant_gid, qos, is_reader) ==
  IF is_reader
  THEN add_reader(c, gid, topic_name, type_name, type_hash, participant_gid, qos)
  ELSE add_writer(c, gid, topic_name, type_name, type_hash, participant_gid, qos)

\* GraphCache::remove_writer
remove_writer(c, gid) ==
  LET e == Erase(c.data_writers_, gid)
      ret == e.count > 0
  IN Outcome([c EXCEPT !.data_writers_ = e.map], ret,
             GRAPH_CACHE_CALL_ON_CHANGE_CALLBACK_IF(c.on_change_callback_, ret))

\* GraphCache::remove_reader
remove_reader(c, gid) ==
  LET e == Erase(c.data_readers_, gid)
      ret == e.count > 0
  IN Outcome([c EXCEPT !.data_readers_ = e.map], ret,
             GRAPH_CACHE_CALL_ON_CHANGE_CALLBACK_IF(c.on_change_callback_, ret))

\* GraphCache::remove_entity
remove_entity(c, gid, is_reader) ==
  IF is_reader THEN remove_reader(c, gid) ELSE remove_writer(c, gid)

(***************************************************************************)
(* Participant plane and peer discovery plane.                             *)
(***************************************************************************)
\* participants_.find(gid), then emplace of a default ParticipantInfo if absent
FindOrEmplaceParticipant(participant_map, gid) ==
  IF gid \in DOMAIN participant_map
  THEN participant_map
  ELSE Emplace(participant_map, gid, ParticipantInfo).map

\* Mutant: the message's nodes are appended to the stored ones.
update_participant_entities_merges(c, msg) ==
  LET gid == convert_msg_to_gid(msg.gid)
      found == FindOrEmplaceParticipant(c.participants_, gid)
      updated == [found EXCEPT ![gid].node_entities_info_seq =
                    @ \o msg.node_entities_info_seq]
  IN Outcome([c EXCEPT !.participants_ = updated], "void",
             GRAPH_CACHE_CALL_ON_CHANGE_CALLBACK(c.on_change_callback_))

\* Mutant: the whole entry is replaced by a new one holding the message's nodes.
update_participant_entities_new_entry(c, msg) ==
  LET gid == convert_msg_to_gid(msg.gid)
      updated == [g \in DOMAIN c.participants_ \cup {gid} |->
                    IF g = gid
                    THEN [ParticipantInfo EXCEPT
                            !.node_entities_info_seq = msg.node_entities_info_seq]
                    ELSE c.participants_[g]]
  IN Outcome([c EXCEPT !.participants_ = updated], "void",
             GRAPH_CACHE_CALL_ON_CHANGE_CALLBACK(c.on_change_callback_))

\* GraphCache::update_participant_entities
update_participant_entities(c, msg) ==
  LET gid == convert_msg_to_gid(msg.gid)
      found == FindOrEmplaceParticipant(c.participants_, gid)
      updated == [found EXCEPT ![gid].node_entities_info_seq = msg.node_entities_info_seq]
  IN Outcome([c EXCEPT !.participants_ = updated], "void",
             GRAPH_CACHE_CALL_ON_CHANGE_CALLBACK(c.on_change_callback_))

\* Mutant: the endpoints of the participant are erased with it.
remove_participant_cascades(c, participant_gid) ==
  LET e == Erase(c.participants_, participant_gid)
      ret == e.count > 0
      kept(m) == [g \in {h \in DOMAIN m : m[h].participant_gid # participant_gid} |-> m[g]]
  IN Outcome([c EXCEPT !.participants_ = e.map,
                       !.data_writers_ = kept(c.data_writers_),
                       !.data_readers_ = kept(c.data_readers_)], ret,
             GRAPH_CACHE_CALL_ON_CHANGE_CALLBACK_IF(c.on_change_callback_, ret))

\* GraphCache::remove_participant
remove_participant(c, participant_gid) ==
  LET e == Erase(c.participants_, participant_gid)
      ret == e.count > 0
  IN Outcome([c EXCEPT !.participants_ = e.map], ret,
             GRAPH_CACHE_CALL_ON_CHANGE_CALLBACK_IF(c.on_change_callback_, ret))

\* __create_participant_info_message
create_participant_info_message(gid, info) ==
  [gid |-> convert_gid_to_msg(gid), node_entities_info_seq |-> info]

\* Mutant: the entry is replaced by a new one holding the enclave.
add_participant_new_entry(c, participant_gid, enclave) ==
  LET updated == [g \in DOMAIN c.participants_ \cup {participant_gid} |->
                    IF g = participant_gid
                    THEN [ParticipantInfo EXCEPT !.enclave = enclave]
                    ELSE c.participants_[g]]
  IN Outcome([c EXCEPT !.participants_ = updated], "void",
             GRAPH_CACHE_CALL_ON_CHANGE_CALLBACK(c.on_change_callback_))

\* GraphCache::add_participant
add_participant(c, participant_gid, enclave) ==
  LET found == FindOrEmplaceParticipant(c.participants_, participant_gid)
      updated == [found EXCEPT ![participant_gid].enclave = enclave]
  IN Outcome([c EXCEPT !.participants_ = updated], "void",
             GRAPH_CACHE_CALL_ON_CHANGE_CALLBACK(c.on_change_callback_))

(***************************************************************************)
(* Local node plane.  The asserted preconditions of these operations are   *)
(* the predicates HasParticipant and HasNode; a call is made only when     *)
(* they hold.                                                              *)
(***************************************************************************)
NodeMatches(node_info, node_name, node_namespace) ==
  node_info.node_name = node_name /\ node_info.node_namespace = node_namespace

\* assert(it != participants_.end())
HasParticipant(c, participant_gid) == participant_gid \in DOMAIN c.participants_

\* assert(to_remove != seq.end()) / assert(node_info != seq.end())
HasNode(c, participant_gid, node_name, node_namespace) ==
  /\ HasParticipant(c, participant_gid)
  /\ \E i \in 1..Len(c.participants_[participant_gid].node_entities_info_seq) :
       NodeMatches(c.participants_[participant_gid].node_entities_info_seq[i],
                   node_name, node_namespace)

\* GraphCache::add_node
add_node(c, participant_gid, node_name, node_namespace) ==
  LET node_info == NodeEntitiesInfo(node_namespace, node_name)
      updated == [c.participants_ EXCEPT ![participant_gid].node_entities_info_seq =
                    Append(@, node_info)]
  IN Outcome([c EXCEPT !.participants_ = updated],
             create_participant_info_message(
               participant_gid, updated[participant_gid].node_entities_info_seq),
             GRAPH_CACHE_CALL_ON_CHANGE_CALLBACK(c.on_change_callback_))

\* GraphCache::remove_node
remove_node(c, participant_gid, node_name, node_namespace) ==
  LET seq == c.participants_[participant_gid].node_entities_info_seq
      to_remove == FindIf(seq, [i \in 1..Len(seq) |->
                                    NodeMatches(seq[i], node_name, node_namespace)])
      updated == [c.participants_ EXCEPT ![participant_gid].node_entities_info_seq =
                    EraseAt(seq, to_remove)]
  IN Outcome([c EXCEPT !.participants_ = updated],
             create_participant_info_message(
               participant_gid, updated[participant_gid].node_entities_info_seq),
             GRAPH_CACHE_CALL_ON_CHANGE_CALLBACK(c.on_change_callback_))

\* the lambda add_writer_gid of associate_writer
add_writer_gid(info, writer_gid) ==
  [info EXCEPT !.writer_gid_seq = Append(@, convert_gid_to_msg(writer_gid))]

\* the lambda delete_writer_gid of dissociate_writer
delete_writer_gid(info, writer_gid) ==
  LET writer_gid_msg == convert_gid_to_msg(writer_gid)
      it == FindIf(info.writer_gid_seq,
                   [i \in 1..Len(info.writer_gid_seq) |->
                      info.writer_gid_seq[i] = writer_gid_msg])
  IN IF it # Len(info.writer_gid_seq) + 1
     THEN [info EXCEPT !.writer_gid_seq = EraseAt(@, it)]
     ELSE info

\* the lambda add_reader_gid of associate_reader
add_reader_gid(info, reader_gid) ==
  [info EXCEPT !.reader_gid_seq = Append(@, convert_gid_to_msg(reader_gid))]

\* the lambda delete_reader_gid of dissociate_reader
delete_reader_gid(info, reader_gid) ==
  LET reader_gid_msg == convert_gid_to_msg(reader_gid)
      it == FindIf(info.reader_gid_seq,
                   [i \in 1..Len(info.reader_gid_seq) |->
                      info.reader_gid_seq[i] = reader_gid_msg])
  IN IF it # Len(info.reader_gid_seq) + 1
     THEN [info EXCEPT !.reader_gid_seq = EraseAt(@, it)]
     ELSE info

\* func(*node_info): the functor passed to __modify_node_info is one of the
\* four lambdas with the gid it captured.
CallFunctor(func, info) ==
  CASE func.lambda = "add_writer_gid" -> add_writer_gid(info, func.gid)
    [] func.lambda = "delete_writer_gid" -> delete_writer_gid(info, func.gid)
    [] func.lambda = "add_reader_gid" -> add_reader_gid(info, func.gid)
    [] func.lambda = "delete_reader_gid" -> delete_reader_gid(info, func.gid)

\* Mutant: the message is built before func is applied.
modify_node_info_stale_msg(participant_gid, node_name, node_namespace, func, participant_map) ==
  LET seq == participant_map[participant_gid].node_entities_info_seq
      node_info == FindIf(seq, [i \in 1..Len(seq) |->
                                    NodeMatches(seq[i], node_name, node_namespace)])
      updated == [participant_map EXCEPT ![participant_gid].node_entities_info_seq =
                    [seq EXCEPT ![node_info] = CallFunctor(func, seq[node_info])]]
  IN [participant_map |-> updated,
      msg |-> create_participant_info_message(participant_gid, seq)]

\* __modify_node_info: func applied to the first matching node of the participant
modify_node_info(participant_gid, node_name, node_namespace, func, participant_map) ==
  LET seq == participant_map[participant_gid].node_entities_info_seq
      node_info == FindIf(seq, [i \in 1..Len(seq) |->
                                    NodeMatches(seq[i], node_name, node_namespace)])
      updated == [participant_map EXCEPT ![participant_gid].node_entities_info_seq =
                    [seq EXCEPT ![node_info] = CallFunctor(func, seq[node_info])]]
  IN [participant_map |-> updated,
      msg |-> create_participant_info_message(
                participant_gid, updated[participant_gid].node_entities_info_seq)]

\* GraphCache::associate_writer
associate_writer(c, writer_gid, participant_gid, node_name, node_namespace) ==
  LET m == modify_node_info(participant_gid, node_name, node_namespace,
                            [lambda |-> "add_writer_gid", gid |-> writer_gid], c.participants_)
  IN Outcome([c EXCEPT !.participants_ = m.participant_map], m.msg,
             GRAPH_CACHE_CALL_ON_CHANGE_CALLBACK(c.on_change_callback_))

\* GraphCache::dissociate_writer
dissociate_writer(c, writer_gid, participant_gid, node_name, node_namespace) ==
  LET m == modify_node_info(participant_gid, node_name, node_namespace,
                            [lambda |-> "delete_writer_gid", gid |-> writer_gid], c.participants_)
  IN Outcome([c EXCEPT !.participants_ = m.participant_map], m.msg,
             GRAPH_CACHE_CALL_ON_CHANGE_CALLBACK(c.on_change_callback_))

\* GraphCache::associate_reader
associate_reader(c, reader_gid, participant_gid, node_name, node_namespace) ==
  LET m == modify_node_info(participant_gid, node_name, node_namespace,
                            [lambda |-> "add_reader_gid", gid |-> reader_gid], c.participants_)
  IN Outcome([c EXCEPT !.participants_ = m.participant_map], m.msg,
             GRAPH_CACHE_CALL_ON_CHANGE_CALLBACK(c.on_change_callback_))

\* GraphCache::dissociate_reader
dissociate_reader(c, reader_gid, participant_gid, node_name, node_namespace) ==
  LET m == modify_node_info(participant_gid, node_name, node_namespace,
                            [lambda |-> "delete_reader_gid", gid |-> reader_gid], c.participants_)
  IN Outcome([c EXCEPT !.participants_ = m.participant_map], m.msg,
             GRAPH_CACHE_CALL_ON_CHANGE_CALLBACK(c.on_change_callback_))

(***************************************************************************)
(* Introspection (the part the threads below use).                         *)
(***************************************************************************)
\* The caller's demangling functions: the identity, one that strips the
\* ROS topic prefix "rt" and answers "" for anything else, and one for type
\* names that removes the trailing underscore of the types it knows.
Demangle(fn, name) ==
  IF fn = "identity" THEN name
  ELSE IF fn = "ros_type"
       THEN (IF name = "String_" THEN "String"
             ELSE IF name = "Int32_" THEN "Int32"
             ELSE name)
  ELSE IF name = "rt/chatter" THEN "/chatter"
  ELSE IF name = "rt/other" THEN "/other"
  ELSE ""

\* A null pointer; a field that holds it holds no block.
NULL == [null |-> TRUE]

\* __get_count
get_count(entities, topic_name) ==
  Cardinality({g \in DOMAIN entities : entities[g].topic_name = topic_name})

\* GraphCache::get_writer_count; has_count: the count pointer is not null.
\* A null pointer is refused and nothing is written.
get_writer_count(c, topic_name, has_count) ==
  IF ~has_count
  THEN Outcome(c, [ret |-> "RMW_RET_INVALID_ARGUMENT", count |-> NULL], FALSE)
  ELSE Outcome(c, [ret |-> "RMW_RET_OK",
                   count |-> get_count(c.data_writers_, topic_name)], FALSE)

\* __get_names_and_types: topics[demangled topic].insert(demangled type), for
\* every entity whose demangled topic is not empty, on top of `topics`.
get_names_and_types_of(entities, demangle_topic, demangle_type, topics) ==
  LET kept == {g \in DOMAIN entities :
                 Demangle(demangle_topic, entities[g].topic_name) # ""}
      names == {Demangle(demangle_topic, entities[g].topic_name) : g \in kept}
  IN [n \in DOMAIN topics \cup names |->
        (IF n \in DOMAIN topics THEN topics[n] ELSE {}) \cup
        {Demangle(demangle_type, entities[g].topic_type) :
           g \in {h \in kept : Demangle(demangle_topic, entities[h].topic_name) = n}}]

\* Mutant: only the writers map is scanned.
get_names_and_types_writers_only(c, demangle_topic, demangle_type, valid_arguments) ==
  Outcome(c, get_names_and_types_of(c.data_writers_, demangle_topic, demangle_type,
                                    EmptyMap), FALSE)

\* GraphCache::get_names_and_types up to its call of
\* __populate_rmw_names_and_types; valid_arguments: the allocator is valid
\* and topic_names_and_types is zero-initialized.  If not, it returns
\* RMW_RET_INVALID_ARGUMENT before it locks the mutex and reads nothing;
\* otherwise the block that holds the mutex fills the local copy `topics`.
get_names_and_types(c, demangle_topic, demangle_type, valid_arguments) ==
  LET topics == get_names_and_types_of(
                  c.data_writers_, demangle_topic, demangle_type,
                  get_names_and_types_of(
                    c.data_readers_, demangle_topic, demangle_type, EmptyMap))
  IN IF ~valid_arguments
     THEN Outcome(c, "RMW_RET_INVALID_ARGUMENT", FALSE)
     ELSE Outcome(c, topics, FALSE)

\* GraphCache::get_reader_count; has_count: the count pointer is not null.
get_reader_count(c, topic_name, has_count) ==
  IF ~has_count
  THEN Outcome(c, [ret |-> "RMW_RET_INVALID_ARGUMENT", count |-> NULL], FALSE)
  ELSE Outcome(c, [ret |-> "RMW_RET_OK",
                   count |-> get_count(c.data_readers_, topic_name)], FALSE)

\* enum class EndpointCreator
ROS_NODE == "ROS_NODE"
UNDISCOVERED_ROS_NODE == "UNDISCOVERED_ROS_NODE"
BARE_DDS_PARTICIPANT == "BARE_DDS_PARTICIPANT"

\* Mutant: the last node that lists the gid is reported.
find_name_and_namespace_last_match(participant_map, participant_gid, entity_gid, is_reader) ==
  IF participant_gid \notin DOMAIN participant_map
  THEN <<"", "", BARE_DDS_PARTICIPANT>>
  ELSE LET seq == participant_map[participant_gid].node_entities_info_seq
           hits == {i \in 1..Len(seq) :
                      \E k \in 1..Len(IF is_reader THEN seq[i].reader_gid_seq
                                       ELSE seq[i].writer_gid_seq) :
                        (IF is_reader THEN seq[i].reader_gid_seq
                         ELSE seq[i].writer_gid_seq)[k].data = entity_gid}
       IN IF hits = {} THEN <<"", "", UNDISCOVERED_ROS_NODE>>
          ELSE LET i == CHOOSE h \in hits : \A o \in hits : o <= h
               IN <<seq[i].node_name, seq[i].node_namespace, ROS_NODE>>

\* Mutant: a node that lists the gid as reader or as writer is reported.
find_name_and_namespace_either_list(participant_map, participant_gid, entity_gid, is_reader) ==
  IF participant_gid \notin DOMAIN participant_map
  THEN <<"", "", BARE_DDS_PARTICIPANT>>
  ELSE LET seq == participant_map[participant_gid].node_entities_info_seq
           hits == {i \in 1..Len(seq) :
                      \E k \in 1..Len(seq[i].reader_gid_seq \o seq[i].writer_gid_seq) :
                        (seq[i].reader_gid_seq \o seq[i].writer_gid_seq)[k].data = entity_gid}
       IN IF hits = {} THEN <<"", "", UNDISCOVERED_ROS_NODE>>
          ELSE LET i == CHOOSE h \in hits : \A o \in hits : h <= o
               IN <<seq[i].node_name, seq[i].node_namespace, ROS_NODE>>

\* __find_name_and_namespace_from_entity_gid: the loop returns at the first
\* node whose reader (writer) list holds the entity's bytes.
find_name_and_namespace_from_entity_gid(participant_map, participant_gid, entity_gid, is_reader) ==
  IF participant_gid \notin DOMAIN participant_map
  THEN <<"", "", BARE_DDS_PARTICIPANT>>
  ELSE LET seq == participant_map[participant_gid].node_entities_info_seq
           found == [i \in 1..Len(seq) |->
                       LET gid_seq == IF is_reader THEN seq[i].reader_gid_seq
                                      ELSE seq[i].writer_gid_seq
                       IN FindIf(gid_seq, [k \in 1..Len(gid_seq) |->
                                             gid_seq[k].data = entity_gid])
                          # Len(gid_seq) + 1]
           node_info == FindIf(seq, found)
       IN IF node_info = Len(seq) + 1
          THEN <<"", "", UNDISCOVERED_ROS_NODE>>
          ELSE <<seq[node_info].node_name, seq[node_info].node_namespace, ROS_NODE>>

\* Iteration order of a std::map keyed by gid: ascending by Compare_rmw_gid_t.
SortedGids(S) ==
  CHOOSE seq \in [1..Cardinality(S) -> S] :
    \A i, j \in 1..Cardinality(S) : i < j => Compare_rmw_gid_t(seq[i], seq[j])

\* One element of the rmw_topic_endpoint_info_array_t filled by
\* __get_entities_info_by_topic (allocations succeed).
endpoint_info(entity_gid, info, participant_map, demangle_type, is_reader) ==
  LET result == find_name_and_namespace_from_entity_gid(
                  participant_map, info.participant_gid, entity_gid, is_reader)
  IN [node_name |->
        CASE result[3] = ROS_NODE -> result[1]
          [] result[3] = UNDISCOVERED_ROS_NODE -> "_NODE_NAME_UNKNOWN_"
          [] result[3] = BARE_DDS_PARTICIPANT -> "_CREATED_BY_BARE_DDS_APP_",
      node_namespace |->
        CASE result[3] = ROS_NODE -> result[2]
          [] result[3] = UNDISCOVERED_ROS_NODE -> "_NODE_NAMESPACE_UNKNOWN_"
          [] result[3] = BARE_DDS_PARTICIPANT -> "_CREATED_BY_BARE_DDS_APP_",
      topic_type |-> Demangle(demangle_type, info.topic_type),
      topic_type_hash |-> info.topic_type_hash,
      endpoint_type |-> IF is_reader THEN "RMW_ENDPOINT_SUBSCRIPTION"
                        ELSE "RMW_ENDPOINT_PUBLISHER",
      endpoint_gid |-> entity_gid,
      qos_profile |-> info.qos]

\* __get_entities_info_by_topic: the entities of the topic, in map order.
get_entities_info_by_topic(entities, participant_map, topic_name, demangle_type, is_reader) ==
  LET matching == {g \in DOMAIN entities : entities[g].topic_name = topic_name}
      order == SortedGids(matching)
  IN [ret |-> "RMW_RET_OK",
      info_array |-> [i \in 1..Cardinality(matching) |->
                        endpoint_info(order[i], entities[order[i]], participant_map,
                                      demangle_type, is_reader)]]

\* GraphCache::get_writers_info_by_topic
get_writers_info_by_topic(c, topic_name, demangle_type) ==
  Outcome(c, get_entities_info_by_topic(c.data_writers_, c.participants_, topic_name,
                                        demangle_type, FALSE), FALSE)

\* GraphCache::get_readers_info_by_topic
get_readers_info_by_topic(c, topic_name, demangle_type) ==
  Outcome(c, get_entities_info_by_topic(c.data_readers_, c.participants_, topic_name,
                                        demangle_type, TRUE), FALSE)

(***************************************************************************)
(* Output structures and the allocator.  A call's allocator is given by    *)
(* fail_at: the allocation requests of the call are counted from 1, and    *)
(* request number fail_at returns NULL (0: none fails).  A block is named  *)
(* by the number of the request that returned it.  Each operation returns  *)
(* with `heap`, the blocks it allocated and has not deallocated.           *)
(***************************************************************************)
\* std::less<std::string> on the strings that are keys of a NamesAndTypes map
\* or members of its sets.
StringOrder ==
  <<"", "/", "/chatter", "/ns", "/other", "Int32", "Int32_", "Srv_", "String", "String_",
    "listener", "rq/service", "rt/chatter", "rt/other", "talker">>

StringLess(a, b) ==
  \E i, j \in 1..Len(StringOrder) : i < j /\ StringOrder[i] = a /\ StringOrder[j] = b

\* The iteration order of a std::map's keys or of a std::set<std::string>.
SortedStrings(S) ==
  CHOOSE seq \in [1..Cardinality(S) -> S] :
    \A i, j \in 1..Cardinality(S) : i < j => StringLess(seq[i], seq[j])

\* The request with this number is made and returns memory.
Allocated(request, fail_at) == fail_at = 0 \/ request < fail_at

\* The block that rcutils_strdup returns.
rcutils_strdup(str, request) == [id |-> request, str |-> str]

rcutils_get_zero_initialized_string_array == [size |-> 0, data |-> NULL]

\* rcutils_string_array_init, making the request with this number: sets
\* size, then data to a zeroed array of size pointers; the structure keeps
\* the size when the allocator returns NULL, which it does to request
\* fail_at only.
rcutils_string_array_init(size, request, fail_at) ==
  IF request # fail_at
  THEN [size |-> size, data |-> [id |-> request, elems |-> [i \in 1..size |-> NULL]]]
  ELSE [size |-> size, data |-> NULL]

\* rcutils_string_array_fini: nothing to do if data is NULL; else deallocates
\* every element and the array and zeroes the structure.
rcutils_string_array_fini(string_array) ==
  IF string_array.data = NULL
  THEN [string_array |-> string_array, freed |-> {}]
  ELSE [string_array |-> rcutils_get_zero_initialized_string_array,
        freed |-> {string_array.data.id} \cup
                  {string_array.data.elems[i].id :
                     i \in {j \in 1..string_array.size : string_array.data.elems[j] # NULL}}]

\* The strings of a string array, in order.
StringsOf(string_array) ==
  IF string_array.data = NULL THEN <<>>
  ELSE [i \in 1..string_array.size |->
          IF string_array.data.elems[i] = NULL THEN NULL
          ELSE string_array.data.elems[i].str]

\* The blocks a string array points to.
BlocksOf(string_array) == rcutils_string_array_fini(string_array).freed

rmw_get_zero_initialized_names_and_types ==
  [names |-> rcutils_get_zero_initialized_string_array, types |-> NULL]

\* rmw_names_and_types_init: the names array, then a zeroed array of size
\* string arrays; if the second allocation fails, the names are finalized.
\* A NULL array of size 0 is no failure, and types keeps what the allocator
\* returned.
rmw_names_and_types_init(size, fail_at) ==
  LET names == rcutils_string_array_init(size, 1, fail_at)
  IN IF names.data = NULL /\ size # 0
     THEN [ret |-> "RMW_RET_BAD_ALLOC", freed |-> {},
           names_and_types |-> [names |-> names, types |-> NULL]]
     ELSE IF fail_at = 2 /\ size # 0
     THEN [ret |-> "RMW_RET_BAD_ALLOC", freed |-> rcutils_string_array_fini(names).freed,
           names_and_types |-> [names |-> rcutils_string_array_fini(names).string_array,
                                types |-> NULL]]
     ELSE [ret |-> "RMW_RET_OK", freed |-> {},
           names_and_types |->
             [names |-> names,
              types |-> IF fail_at = 2 THEN NULL
                        ELSE [id |-> 2,
                              elems |-> [i \in 1..size |->
                                           rcutils_get_zero_initialized_string_array]]]]

\* rmw_names_and_types_fini: finalizes types[i] for i < names.size,
\* deallocates types, finalizes names.
rmw_names_and_types_fini(names_and_types) ==
  IF names_and_types.names.size # 0 /\ names_and_types.types = NULL
  THEN [ret |-> "RMW_RET_INVALID_ARGUMENT", names_and_types |-> names_and_types,
        freed |-> {}]
  ELSE [ret |-> "RMW_RET_OK",
        names_and_types |->
          [names |-> rcutils_string_array_fini(names_and_types.names).string_array,
           types |-> NULL],
        freed |->
          (IF names_and_types.types = NULL THEN {}
           ELSE {names_and_types.types.id} \cup
                UNION {rcutils_string_array_fini(names_and_types.types.elems[i]).freed :
                         i \in 1..names_and_types.names.size})
          \cup rcutils_string_array_fini(names_and_types.names).freed]

\* The allocation requests that __populate_rmw_names_and_types makes after
\* rmw_names_and_types_init, in order, from item number index on: for each
\* item the copy of the topic name, the array of its types, the copy of each
\* type.
RECURSIVE PopulateRequests(_, _, _)
PopulateRequests(topics, names, index) ==
  IF index > Len(names) THEN <<>>
  ELSE LET types == SortedStrings(topics[names[index]])
       IN <<[slot |-> "topic_name", index |-> index, type_index |-> 0,
             str |-> names[index]],
            [slot |-> "types", index |-> index, type_index |-> 0, str |-> ""]>>
          \o [k \in 1..Len(types) |->
                [slot |-> "type_name", index |-> index, type_index |-> k, str |-> types[k]]]
          \o PopulateRequests(topics, names, index + 1)

\* The number of the request that fills this slot (requests 1 and 2 are
\* those of rmw_names_and_types_init).
RequestOf(requests, slot, index, type_index) ==
  2 + CHOOSE r \in 1..Len(requests) :
        /\ requests[r].slot = slot
        /\ requests[r].index = index
        /\ requests[r].type_index = type_index

\* topic_names_and_types as the loop of __populate_rmw_names_and_types
\* leaves it: complete, or as of the failed request.
PopulatedNamesAndTypes(topics, names, requests, fail_at) ==
  [names |->
     [size |-> Len(names),
      data |-> [id |-> 1,
                elems |-> [i \in 1..Len(names) |->
                             IF Allocated(RequestOf(requests, "topic_name", i, 0), fail_at)
                             THEN rcutils_strdup(names[i],
                                                 RequestOf(requests, "topic_name", i, 0))
                             ELSE NULL]]],
   types |->
     [id |-> 2,
      elems |->
        [i \in 1..Len(names) |->
           LET types == SortedStrings(topics[names[i]])
               init == RequestOf(requests, "types", i, 0)
           IN IF fail_at # 0 /\ init > fail_at
              THEN rcutils_get_zero_initialized_string_array
              ELSE IF init = fail_at
              THEN rcutils_string_array_init(Len(types), init, fail_at)
              ELSE [size |-> Len(types),
                    data |-> [id |-> init,
                              elems |-> [k \in 1..Len(types) |->
                                 IF Allocated(RequestOf(requests, "type_name", i, k), fail_at)
                                 THEN rcutils_strdup(types[k],
                                        RequestOf(requests, "type_name", i, k))
                                 ELSE NULL]]]]]]

populate_rmw_names_and_types_no_cleanup(topics, fail_at) ==
  LET names == SortedStrings(DOMAIN topics)
      requests == PopulateRequests(topics, names, 1)
      filled == PopulatedNamesAndTypes(topics, names, requests, fail_at)
  IN IF DOMAIN topics = {}
     THEN [ret |-> "RMW_RET_OK",
           topic_names_and_types |-> rmw_get_zero_initialized_names_and_types,
           heap |-> {}]
     ELSE [ret |-> IF fail_at \in 1..(2 + Len(requests))
                   THEN "RMW_RET_BAD_ALLOC" ELSE "RMW_RET_OK",
           topic_names_and_types |-> filled,
           heap |-> {r \in 1..(2 + Len(requests)) : Allocated(r, fail_at)}]

populate_rmw_names_and_types(topics, fail_at) ==
  LET names == SortedStrings(DOMAIN topics)
      requests == PopulateRequests(topics, names, 1)
      init == rmw_names_and_types_init(Len(names), fail_at)
      failed == fail_at \in 1..(2 + Len(requests))
      filled == PopulatedNamesAndTypes(topics, names, requests, fail_at)
      cleanup == rmw_names_and_types_fini(filled)
  IN IF DOMAIN topics = {}
     THEN [ret |-> "RMW_RET_OK",
           topic_names_and_types |-> rmw_get_zero_initialized_names_and_types,
           heap |-> {}]
     ELSE IF init.ret # "RMW_RET_OK"
     THEN [ret |-> init.ret, topic_names_and_types |-> init.names_and_types,
           heap |-> {r \in 1..2 : Allocated(r, fail_at)} \ init.freed]
     ELSE IF failed
     THEN [ret |-> "RMW_RET_BAD_ALLOC", topic_names_and_types |-> cleanup.names_and_types,
           heap |-> {r \in 1..(2 + Len(requests)) : Allocated(r, fail_at)} \ cleanup.freed]
     ELSE [ret |-> "RMW_RET_OK", topic_names_and_types |-> filled,
           heap |-> 1..(2 + Len(requests))]

SortedParticipantsDescending(participant_map) ==
  [k \in 1..Cardinality(DOMAIN participant_map) |->
     SortedGids(DOMAIN participant_map)[Cardinality(DOMAIN participant_map) + 1 - k]]

\* The participants in the iteration order of the participants map.
SortedParticipants(participant_map) == SortedGids(DOMAIN participant_map)

find_node_by_name_only(participant_map, node_name, node_namespace) ==
  LET found == {x \in {<<p, i>> : p \in DOMAIN participant_map, i \in 1..2} :
                  /\ x[2] <= Len(participant_map[x[1]].node_entities_info_seq)
                  /\ participant_map[x[1]].node_entities_info_seq[x[2]].node_name = node_name}
  IN IF found = {} THEN NULL
     ELSE LET x == CHOOSE y \in found : TRUE
          IN participant_map[x[1]].node_entities_info_seq[x[2]]

\* __find_node: the first node with this name and namespace, participants in
\* map order, each participant's nodes in list order; NULL if there is none.
find_node(participant_map, node_name, node_namespace) ==
  LET order == SortedParticipants(participant_map)
      has(p) == \E i \in 1..Len(participant_map[p].node_entities_info_seq) :
                  NodeMatches(participant_map[p].node_entities_info_seq[i],
                              node_name, node_namespace)
      found == {k \in 1..Len(order) : has(order[k])}
  IN IF found = {} THEN NULL
     ELSE LET p == order[CHOOSE k \in found : \A o \in found : k <= o]
              seq == participant_map[p].node_entities_info_seq
          IN seq[FindIf(seq, [i \in 1..Len(seq) |->
                                NodeMatches(seq[i], node_name, node_namespace)])]

get_names_and_types_from_gids_all(entities_map, gids, demangle_topic, demangle_type) ==
  get_names_and_types_of(entities_map, demangle_topic, demangle_type, EmptyMap)

\* __get_names_and_types_from_gids
get_names_and_types_from_gids(entities_map, gids, demangle_topic, demangle_type) ==
  LET found == {i \in 1..Len(gids) :
                  /\ convert_msg_to_gid(gids[i]) \in DOMAIN entities_map
                  /\ Demangle(demangle_topic,
                              entities_map[convert_msg_to_gid(gids[i])].topic_name) # ""}
      topic_of(i) == Demangle(demangle_topic,
                              entities_map[convert_msg_to_gid(gids[i])].topic_name)
      type_of(i) == Demangle(demangle_type,
                             entities_map[convert_msg_to_gid(gids[i])].topic_type)
  IN [n \in {topic_of(i) : i \in found} |->
        {type_of(i) : i \in {j \in found : topic_of(j) = n}}]

get_writers_gids(node_info) == node_info.writer_gid_seq
get_readers_gids(node_info) == node_info.reader_gid_seq

\* __get_names_and_types_by_node, called with a valid allocator and a
\* zero-initialized topic_names_and_types.
get_names_and_types_by_node(participants_map, entities_map, node_name, namespace_, demangle_topic, demangle_type, is_reader, fail_at) ==
  LET node_info_ptr == find_node(participants_map, node_name, namespace_)
      gids == IF is_reader THEN get_readers_gids(node_info_ptr)
              ELSE get_writers_gids(node_info_ptr)
  IN IF node_info_ptr = NULL
     THEN [ret |-> "RMW_RET_NODE_NAME_NON_EXISTENT",
           topic_names_and_types |-> rmw_get_zero_initialized_names_and_types,
           heap |-> {}]
     ELSE populate_rmw_names_and_types(
            get_names_and_types_from_gids(entities_map, gids, demangle_topic,
                                          demangle_type),
            fail_at)

get_writer_names_and_types_by_node(c, node_name, namespace_, demangle_topic, demangle_type, fail_at) ==
  Outcome(c, get_names_and_types_by_node(c.participants_, c.data_writers_, node_name,
                                         namespace_, demangle_topic, demangle_type,
                                         FALSE, fail_at), FALSE)

get_reader_names_and_types_by_node(c, node_name, namespace_, demangle_topic, demangle_type, fail_at) ==
  Outcome(c, get_names_and_types_by_node(c.participants_, c.data_readers_, node_name,
                                         namespace_, demangle_topic, demangle_type,
                                         TRUE, fail_at), FALSE)

\* __get_number_of_nodes: the node lists' lengths, summed over the
\* participants from position k of the map's order on.
RECURSIVE number_of_nodes_from(_, _, _)
number_of_nodes_from(participants_map, order, k) ==
  IF k > Len(order) THEN 0
  ELSE Len(participants_map[order[k]].node_entities_info_seq)
       + number_of_nodes_from(participants_map, order, k + 1)

get_number_of_nodes_of(participants_map) ==
  number_of_nodes_from(participants_map, SortedParticipants(participants_map), 1)

\* GraphCache::get_number_of_nodes
get_number_of_nodes(c) == Outcome(c, get_number_of_nodes_of(c.participants_), FALSE)

\* The nodes that the loops of get_node_names visit, in order, each with the
\* enclave of its participant.
RECURSIVE NodesFrom(_, _, _)
NodesFrom(participants_map, order, k) ==
  IF k > Len(order) THEN <<>>
  ELSE LET nodes_info == participants_map[order[k]]
       IN [i \in 1..Len(nodes_info.node_entities_info_seq) |->
             [node_name |-> nodes_info.node_entities_info_seq[i].node_name,
              node_namespace |-> nodes_info.node_entities_info_seq[i].node_namespace,
              enclave |-> nodes_info.enclave]]
          \o NodesFrom(participants_map, order, k + 1)

\* GraphCache::get_node_names, called with zero-initialized arrays and a
\* valid allocator; has_enclaves: the enclaves pointer is not null.  The
\* requests: one per array, then per node its name, its namespace and (if
\* asked for) its enclave.  rcutils_string_array_init reports no failure for
\* a NULL array of size 0, so without nodes every array is requested and
\* the call succeeds, whatever the allocator returned.
get_node_names(c, has_enclaves, fail_at) ==
  LET nodes == NodesFrom(c.participants_, SortedParticipants(c.participants_), 1)
      nodes_number == get_number_of_nodes_of(c.participants_)
      arrays == IF has_enclaves THEN 3 ELSE 2
      request(j, field) == arrays + (j - 1) * arrays + field
      total == arrays + nodes_number * arrays
      failed == nodes_number # 0 /\ fail_at \in 1..total
      reached(r) == ~failed \/ r <= fail_at
      filled(r, field) ==
        IF ~reached(r) THEN rcutils_get_zero_initialized_string_array
        ELSE LET array == rcutils_string_array_init(nodes_number, r, fail_at)
             IN IF array.data = NULL THEN array
                ELSE [array EXCEPT !.data.elems =
                        [j \in 1..nodes_number |->
                           IF Allocated(request(j, r), fail_at)
                           THEN rcutils_strdup(nodes[j][field], request(j, r))
                           ELSE NULL]]
      node_names == filled(1, "node_name")
      node_namespaces == filled(2, "node_namespace")
      enclaves == IF has_enclaves THEN filled(3, "enclave")
                  ELSE rcutils_get_zero_initialized_string_array
      allocated == {r \in 1..total : reached(r) /\ r # fail_at}
  IN IF failed
     THEN Outcome(c, [ret |-> "RMW_RET_BAD_ALLOC",
                      node_names |-> rcutils_string_array_fini(node_names).string_array,
                      node_namespaces |->
                        rcutils_string_array_fini(node_namespaces).string_array,
                      enclaves |-> rcutils_string_array_fini(enclaves).string_array,
                      heap |-> allocated \ (rcutils_string_array_fini(node_names).freed
                                 \cup rcutils_string_array_fini(node_namespaces).freed
                                 \cup rcutils_string_array_fini(enclaves).freed)],
                  FALSE)
     ELSE Outcome(c, [ret |-> "RMW_RET_OK", node_names |-> node_names,
                      node_namespaces |-> node_namespaces, enclaves |-> enclaves,
                      heap |-> allocated], FALSE)

\* rmw_topic_endpoint_info_fini: deallocates the three strings.
rmw_topic_endpoint_info_fini(topic_endpoint_info) ==
  {topic_endpoint_info[f].id :
     f \in {g \in {"node_name", "node_namespace", "topic_type"} :
              topic_endpoint_info[g] # NULL}}

\* rmw_topic_endpoint_info_array_fini: finalizes the size elements,
\* deallocates the array and zeroes the structure.
rmw_topic_endpoint_info_array_fini(topic_endpoint_info_array) ==
  [topic_endpoint_info_array |-> [size |-> 0, info_array |-> NULL],
   freed |-> IF topic_endpoint_info_array.info_array = NULL THEN {}
             ELSE {topic_endpoint_info_array.info_array.id} \cup
                  UNION {rmw_topic_endpoint_info_fini(
                           topic_endpoint_info_array.info_array.elems[i]) :
                           i \in 1..topic_endpoint_info_array.size}]

\* The loop of __get_entities_info_by_topic over the size matching
\* endpoints, whose values a call without allocation failure yields, and
\* its delete_on_error scope exit.
CopyEndpointsInfo(values, size, fail_at) ==
  LET request(i, field) == 1 + (i - 1) * 3 + field
      total == 1 + size * 3
      failed == size # 0 /\ fail_at \in 1..total
      copy(i, name, field) ==
        IF Allocated(request(i, field), fail_at)
        THEN rcutils_strdup(values[i][name], request(i, field))
        ELSE NULL
      endpoints_info ==
        [size |-> size,
         info_array |->
           [id |-> 1,
            elems |-> [i \in 1..size |->
                         [values[i] EXCEPT
                            !.node_name = copy(i, "node_name", 1),
                            !.node_namespace = copy(i, "node_namespace", 2),
                            !.topic_type = copy(i, "topic_type", 3)]]]]
      delete_on_error == rmw_topic_endpoint_info_array_fini(endpoints_info)
  IN IF size = 0
     THEN [ret |-> "RMW_RET_OK", info_array |-> <<>>,
           endpoints_info |-> [size |-> 0, info_array |-> NULL], heap |-> {}]
     ELSE IF fail_at = 1
     THEN [ret |-> "RMW_RET_BAD_ALLOC", info_array |-> <<>>,
           endpoints_info |-> [size |-> 0, info_array |-> NULL], heap |-> {}]
     ELSE IF failed
     THEN [ret |-> "RMW_RET_BAD_ALLOC", info_array |-> <<>>,
           endpoints_info |-> delete_on_error.topic_endpoint_info_array,
           heap |-> {r \in 1..total : Allocated(r, fail_at)} \ delete_on_error.freed]
     ELSE [ret |-> "RMW_RET_OK", info_array |-> values,
           endpoints_info |-> endpoints_info, heap |-> 1..total]

\* __get_entities_info_by_topic with its allocator, called with a
\* zero-initialized endpoints_info.  The requests: the array
\* (rmw_topic_endpoint_info_array_init_with_size, which zero-initializes the
\* elements), then per endpoint the copies of node name, node namespace and
\* topic type.  info_array holds the values of a successful call; of an
\* array that is being filled, only the pointers matter (to the finalizer).
get_entities_info_by_topic_alloc(entities, participant_map, topic_name, demangle_type, is_reader, fail_at) ==
  CopyEndpointsInfo(get_entities_info_by_topic(entities, participant_map, topic_name,
                                               demangle_type, is_reader).info_array,
                    get_count(entities, topic_name), fail_at)

get_writers_info_by_topic_alloc(c, topic_name, demangle_type, fail_at) ==
  Outcome(c, get_entities_info_by_topic_alloc(c.data_writers_, c.participants_,
                                              topic_name, demangle_type, FALSE, fail_at),
          FALSE)

get_readers_info_by_topic_alloc(c, topic_name, demangle_type, fail_at) ==
  Outcome(c, get_entities_info_by_topic_alloc(c.data_readers_, c.participants_,
                                              topic_name, demangle_type, TRUE, fail_at),
          FALSE)


(***************************************************************************)
(* QoS profiles (qos.cpp).  rmw_time_t is {uint64_t sec; uint64_t nsec}; a *)
(* 64-bit field is written as the pair <<hi, lo>> of its base-10^9 digits, *)
(* so that the duration sentinels of rmw keep their values.                *)
(***************************************************************************)
U64Less(a, b) == a[1] < b[1] \/ (a[1] = b[1] /\ a[2] < b[2])

rmw_time_t(sec, nsec) == [sec |-> sec, nsec |-> nsec]

\* static bool operator==(rmw_time_t t1, rmw_time_t t2)
operator_eq(t1, t2) == t1.sec = t2.sec /\ t1.nsec = t2.nsec

\* static bool operator!=(rmw_time_t t1, rmw_time_t t2)
operator_ne(t1, t2) == ~operator_eq(t1, t2)

\* Mutant: the nanoseconds are ignored.
operator_lt_sec_only(t1, t2) == U64Less(t1.sec, t2.sec)

\* static bool operator<(rmw_time_t t1, rmw_time_t t2)
operator_lt(t1, t2) ==
  IF U64Less(t1.sec, t2.sec) THEN TRUE
  ELSE IF t1.sec = t2.sec /\ U64Less(t1.nsec, t2.nsec) THEN TRUE
  ELSE FALSE

\* RMW_DURATION_UNSPECIFIED {0, 0} and RMW_DURATION_INFINITE
\* {9223372036, 854775807} of rmw/time.h.
RMW_DURATION_UNSPECIFIED == rmw_time_t(<<0, 0>>, <<0, 0>>)
RMW_DURATION_INFINITE == rmw_time_t(<<9, 223372036>>, <<0, 854775807>>)
deadline_default == RMW_DURATION_UNSPECIFIED
deadline_best_available == rmw_time_t(<<9, 223372036>>, <<0, 854775806>>)
liveliness_lease_duration_default == RMW_DURATION_UNSPECIFIED
liveliness_lease_duration_best_available == rmw_time_t(<<9, 223372036>>, <<0, 854775806>>)

\* rmw_qos_profile_t; history, depth, lifespan and
\* avoid_ros_namespace_conventions are carried along.
rmw_qos_profile_t(reliability, durability, liveliness, deadline, liveliness_lease_duration) ==
  [history |-> "KEEP_LAST", depth |-> 10, reliability |-> reliability,
   durability |-> durability, deadline |-> deadline,
   lifespan |-> RMW_DURATION_UNSPECIFIED, liveliness |-> liveliness,
   liveliness_lease_duration |-> liveliness_lease_duration,
   avoid_ros_namespace_conventions |-> FALSE]

\* _append_to_buffer: nothing is written without a buffer; otherwise the
\* text is appended unless rcutils_vsnprintf reports an error.  A buffer
\* is [text |-> the sequence of the texts appended] (its cut at
\* buffer_size - 1 bytes is not represented).
append_to_buffer(buffer, buffer_size, format, vsnprintf_fails) ==
  IF buffer = NULL \/ buffer_size = 0 THEN [buffer |-> buffer, ret |-> "RMW_RET_OK"]
  ELSE IF vsnprintf_fails THEN [buffer |-> buffer, ret |-> "RMW_RET_ERROR"]
  ELSE [buffer |-> [buffer EXCEPT !.text = Append(@, format)], ret |-> "RMW_RET_OK"]

IsUnknownPolicy(policy) == policy \in {"SYSTEM_DEFAULT", "UNKNOWN"}

\* The seven tests of qos_profile_check_compatible that set
\* RMW_QOS_COMPATIBILITY_ERROR, in the order of the code.
ErrorRows(publisher_qos, subscription_qos) ==
  LET pub_deadline == publisher_qos.deadline
      sub_deadline == subscription_qos.deadline
      pub_lease == publisher_qos.liveliness_lease_duration
      sub_lease == subscription_qos.liveliness_lease_duration
  IN <<[cond |-> publisher_qos.reliability = "BEST_EFFORT" /\
                 subscription_qos.reliability = "RELIABLE",
        text |-> "ERROR: Best effort publisher and reliable subscription;"],
       [cond |-> publisher_qos.durability = "VOLATILE" /\
                 subscription_qos.durability = "TRANSIENT_LOCAL",
        text |-> "ERROR: Volatile publisher and transient local subscription;"],
       [cond |-> operator_eq(pub_deadline, deadline_default) /\
                 operator_ne(sub_deadline, deadline_default),
        text |-> "ERROR: Subscription has a deadline, but publisher does not;"],
       [cond |-> operator_ne(pub_deadline, deadline_default) /\
                 operator_ne(sub_deadline, deadline_default) /\
                 operator_lt(sub_deadline, pub_deadline),
        text |-> "ERROR: Subscription deadline is less than publisher deadline;"],
       [cond |-> publisher_qos.liveliness = "AUTOMATIC" /\
                 subscription_qos.liveliness = "MANUAL_BY_TOPIC",
        text |-> "ERROR: Publisher's liveliness is automatic and subscription's is manual by topic;"],
       [cond |-> operator_eq(pub_lease, liveliness_lease_duration_default) /\
                 operator_ne(sub_lease, liveliness_lease_duration_default),
        text |-> "ERROR: Subscription has a liveliness lease duration, but publisher does not;"],
       [cond |-> operator_ne(pub_lease, liveliness_lease_duration_default) /\
                 operator_ne(sub_lease, liveliness_lease_duration_default) /\
                 operator_lt(sub_lease, pub_lease),
        text |-> "ERROR: Subscription liveliness lease duration is less than publisher;"]>>

\* Mutant: an unresolved policy on either side warns, whatever the other.
WarningChainEitherUnknown(pub_policy, sub_policy, both_text, strict_sub, sub_text, weak_pub, pub_text) ==
  IF IsUnknownPolicy(pub_policy) \/ IsUnknownPolicy(sub_policy)
  THEN <<[cond |-> TRUE, text |-> both_text]>>
  ELSE <<>>

\* One if / else if / else if chain of the block guarded by
\* RMW_QOS_COMPATIBILITY_OK == *compatibility: at most one branch is taken.
WarningChain(pub_policy, sub_policy, both_text, strict_sub, sub_text, weak_pub, pub_text) ==
  IF IsUnknownPolicy(pub_policy) /\ IsUnknownPolicy(sub_policy)
  THEN <<[cond |-> TRUE, text |-> both_text]>>
  ELSE IF IsUnknownPolicy(pub_policy) /\ sub_policy = strict_sub
  THEN <<[cond |-> TRUE, text |-> sub_text]>>
  ELSE IF pub_policy = weak_pub /\ IsUnknownPolicy(sub_policy)
  THEN <<[cond |-> TRUE, text |-> pub_text]>>
  ELSE <<>>

\* The three chains: reliability, durability, liveliness.
WarningRows(publisher_qos, subscription_qos) ==
  WarningChain(publisher_qos.reliability, subscription_qos.reliability,
               "WARNING: Publisher reliability is %s and subscription reliability is %s;",
               "RELIABLE", "WARNING: Reliable subscription, but publisher is %s;",
               "BEST_EFFORT", "WARNING: Best effort publisher, but subscription is %s;")
  \o WarningChain(publisher_qos.durability, subscription_qos.durability,
               "WARNING: Publisher durabilty is %s and subscription durability is %s;",
               "TRANSIENT_LOCAL", "WARNING: Transient local subscription, but publisher is %s;",
               "VOLATILE", "WARNING: Volatile publisher, but subscription is %s;")
  \o WarningChain(publisher_qos.liveliness, subscription_qos.liveliness,
               "WARNING: Publisher liveliness is %s and subscription liveliness is %s;",
               "MANUAL_BY_TOPIC",
               "WARNING: Subscription's liveliness is manual by topic, but publisher's is %s;",
               "AUTOMATIC",
               "WARNING: Publisher's liveliness is automatic, but subscription's is %s;")

\* The rows from index i on, run on the running outcome: a row whose test
\* holds stores its verdict and appends its text; a failed append returns.
\* appends counts the calls of rcutils_vsnprintf made so far.
RECURSIVE RunRows(_, _, _, _, _, _)
RunRows(rows, i, verdict, out, reason_size, vsnprintf_fails_at) ==
  IF i > Len(rows) THEN out
  ELSE IF ~rows[i].cond
  THEN RunRows(rows, i + 1, verdict, out, reason_size, vsnprintf_fails_at)
  ELSE LET writes == out.reason # NULL /\ reason_size # 0
           appended == append_to_buffer(out.reason, reason_size, rows[i].text,
                                        out.appends + 1 = vsnprintf_fails_at)
           next == [appends |-> IF writes THEN out.appends + 1 ELSE out.appends,
                    compatibility |-> verdict, reason |-> appended.buffer,
                    ret |-> appended.ret]
       IN IF appended.ret # "RMW_RET_OK" THEN next
          ELSE RunRows(rows, i + 1, verdict, next, reason_size, vsnprintf_fails_at)

\* Mutant: the block of warnings is run whatever the verdict so far.
qos_profile_check_compatible_lowers(publisher_qos, subscription_qos, has_compatibility, reason, reason_size, vsnprintf_fails_at) ==
  IF ~has_compatibility \/ (reason = NULL /\ reason_size # 0)
  THEN [appends |-> 0, compatibility |-> "unset", reason |-> reason,
        ret |-> "RMW_RET_INVALID_ARGUMENT"]
  ELSE LET start == [appends |-> 0, compatibility |-> "RMW_QOS_COMPATIBILITY_OK",
                     reason |-> IF reason # NULL /\ reason_size # 0 THEN [text |-> <<>>] ELSE reason,
                     ret |-> "RMW_RET_OK"]
           errors == RunRows(ErrorRows(publisher_qos, subscription_qos), 1,
                             "RMW_QOS_COMPATIBILITY_ERROR", start, reason_size,
                             vsnprintf_fails_at)
       IN IF errors.ret # "RMW_RET_OK" THEN errors
          ELSE RunRows(WarningRows(publisher_qos, subscription_qos), 1,
                       "RMW_QOS_COMPATIBILITY_WARNING", errors, reason_size,
                       vsnprintf_fails_at)

\* qos_profile_check_compatible.  has_compatibility: the compatibility
\* pointer is not null; reason: NULL or the caller's buffer; the outcome
\* holds the returned status, *compatibility and the buffer ("unset": the
\* function did not write *compatibility).
qos_profile_check_compatible(publisher_qos, subscription_qos, has_compatibility, reason, reason_size, vsnprintf_fails_at) ==
  IF ~has_compatibility
  THEN [appends |-> 0, compatibility |-> "unset", reason |-> reason,
        ret |-> "RMW_RET_INVALID_ARGUMENT"]
  ELSE IF reason = NULL /\ reason_size # 0
  THEN [appends |-> 0, compatibility |-> "unset", reason |-> reason,
        ret |-> "RMW_RET_INVALID_ARGUMENT"]
  ELSE LET start == [appends |-> 0, compatibility |-> "RMW_QOS_COMPATIBILITY_OK",
                     reason |-> IF reason # NULL /\ reason_size # 0 THEN [text |-> <<>>] ELSE reason,
                     ret |-> "RMW_RET_OK"]
           errors == RunRows(ErrorRows(publisher_qos, subscription_qos), 1,
                             "RMW_QOS_COMPATIBILITY_ERROR", start, reason_size,
                             vsnprintf_fails_at)
       IN IF errors.ret # "RMW_RET_OK" THEN errors
          ELSE IF errors.compatibility = "RMW_QOS_COMPATIBILITY_OK"
          THEN RunRows(WarningRows(publisher_qos, subscription_qos), 1,
                       "RMW_QOS_COMPATIBILITY_WARNING", errors, reason_size,
                       vsnprintf_fails_at)
          ELSE errors

\* rmw_topic_endpoint_info_array_t holding the given profiles.
EndpointInfoArray(profiles) ==
  [size |-> Len(profiles),
   info_array |-> [i \in 1..Len(profiles) |-> [qos_profile |-> profiles[i]]]]

\* The loop of qos_profile_get_best_available_for_subscription from element
\* i on (1-based), on the running counters.
RECURSIVE ScanPublishers(_, _, _)
ScanPublishers(publishers_info, i, acc) ==
  IF i > publishers_info.size THEN acc
  ELSE LET profile == publishers_info.info_array[i].qos_profile
           deadline_set == operator_ne(profile.deadline, deadline_default)
           lease_set == operator_ne(profile.liveliness_lease_duration,
                                    liveliness_lease_duration_default)
       IN ScanPublishers(publishers_info, i + 1,
            [number_of_reliable |->
               IF profile.reliability = "RELIABLE"
               THEN acc.number_of_reliable + 1 ELSE acc.number_of_reliable,
             number_of_transient_local |->
               IF profile.durability = "TRANSIENT_LOCAL"
               THEN acc.number_of_transient_local + 1 ELSE acc.number_of_transient_local,
             number_of_manual_by_topic |->
               IF profile.liveliness = "MANUAL_BY_TOPIC"
               THEN acc.number_of_manual_by_topic + 1 ELSE acc.number_of_manual_by_topic,
             use_default_deadline |-> IF deadline_set THEN FALSE ELSE acc.use_default_deadline,
             largest_deadline |->
               IF deadline_set /\ operator_lt(acc.largest_deadline, profile.deadline)
               THEN profile.deadline ELSE acc.largest_deadline,
             use_default_liveliness_lease_duration |->
               IF lease_set THEN FALSE ELSE acc.use_default_liveliness_lease_duration,
             largest_liveliness_lease_duration |->
               IF lease_set /\ operator_lt(acc.largest_liveliness_lease_duration,
                                           profile.liveliness_lease_duration)
               THEN profile.liveliness_lease_duration
               ELSE acc.largest_liveliness_lease_duration])

\* The five replacements that follow the loop.
ResolveSubscription(acc, size, subscription_profile) ==
  LET all(count) == count = size
  IN [subscription_profile EXCEPT
        !.reliability =
          IF @ = "BEST_AVAILABLE"
          THEN (IF all(acc.number_of_reliable) THEN "RELIABLE" ELSE "BEST_EFFORT")
          ELSE @,
        !.durability =
          IF @ = "BEST_AVAILABLE"
          THEN (IF all(acc.number_of_transient_local) THEN "TRANSIENT_LOCAL" ELSE "VOLATILE")
          ELSE @,
        !.liveliness =
          IF @ = "BEST_AVAILABLE"
          THEN (IF all(acc.number_of_manual_by_topic) THEN "MANUAL_BY_TOPIC" ELSE "AUTOMATIC")
          ELSE @,
        !.deadline =
          IF operator_eq(deadline_best_available, @)
          THEN (IF acc.use_default_deadline THEN deadline_default ELSE acc.largest_deadline)
          ELSE @,
        !.liveliness_lease_duration =
          IF operator_eq(liveliness_lease_duration_best_available, @)
          THEN (IF acc.use_default_liveliness_lease_duration
                THEN liveliness_lease_duration_default
                ELSE acc.largest_liveliness_lease_duration)
          ELSE @]

SubscriptionCounters ==
  [number_of_reliable |-> 0, number_of_transient_local |-> 0,
   number_of_manual_by_topic |-> 0, use_default_deadline |-> TRUE,
   largest_deadline |-> rmw_time_t(<<0, 0>>, <<0, 0>>),
   use_default_liveliness_lease_duration |-> TRUE,
   largest_liveliness_lease_duration |-> rmw_time_t(<<0, 0>>, <<0, 0>>)]

\* Mutant: a policy is raised as soon as one publisher has it.
qos_profile_get_best_available_for_subscription_any(publishers_info, subscription_profile) ==
  IF publishers_info = NULL \/ subscription_profile = NULL
  THEN [ret |-> "RMW_RET_INVALID_ARGUMENT", profile |-> subscription_profile]
  ELSE LET acc == ScanPublishers(publishers_info, 1, SubscriptionCounters)
           some == [acc EXCEPT
                      !.number_of_reliable = IF @ > 0 THEN publishers_info.size ELSE @,
                      !.number_of_transient_local = IF @ > 0 THEN publishers_info.size ELSE @,
                      !.number_of_manual_by_topic = IF @ > 0 THEN publishers_info.size ELSE @]
       IN [ret |-> "RMW_RET_OK",
           profile |-> ResolveSubscription(some, publishers_info.size,
                                           subscription_profile)]

\* Mutant: without publishers the weaker policy is chosen.
qos_profile_get_best_available_for_subscription_weak_if_empty(publishers_info, subscription_profile) ==
  IF publishers_info = NULL \/ subscription_profile = NULL
  THEN [ret |-> "RMW_RET_INVALID_ARGUMENT", profile |-> subscription_profile]
  ELSE [ret |-> "RMW_RET_OK",
        profile |-> ResolveSubscription(
                      ScanPublishers(publishers_info, 1, SubscriptionCounters),
                      IF publishers_info.size = 0 THEN 1 ELSE publishers_info.size,
                      subscription_profile)]

\* qos_profile_get_best_available_for_subscription; profile is
\* *subscription_profile at the return.
qos_profile_get_best_available_for_subscription(publishers_info, subscription_profile) ==
  IF publishers_info = NULL
  THEN [ret |-> "RMW_RET_INVALID_ARGUMENT", profile |-> subscription_profile]
  ELSE IF subscription_profile = NULL
  THEN [ret |-> "RMW_RET_INVALID_ARGUMENT", profile |-> subscription_profile]
  ELSE [ret |-> "RMW_RET_OK",
        profile |-> ResolveSubscription(
                      ScanPublishers(publishers_info, 1, SubscriptionCounters),
                      publishers_info.size, subscription_profile)]

\* The loop of qos_profile_get_best_available_for_publisher from element i
\* on (1-based), on the running values.
RECURSIVE ScanSubscriptions(_, _, _)
ScanSubscriptions(subscriptions_info, i, acc) ==
  IF i > subscriptions_info.size THEN acc
  ELSE LET profile == subscriptions_info.info_array[i].qos_profile
           deadline_set == operator_ne(profile.deadline, deadline_default)
           lease_set == operator_ne(profile.liveliness_lease_duration,
                                    liveliness_lease_duration_default)
       IN ScanSubscriptions(subscriptions_info, i + 1,
            [use_manual_by_topic |->
               IF profile.liveliness = "MANUAL_BY_TOPIC" THEN TRUE
               ELSE acc.use_manual_by_topic,
             use_default_deadline |-> IF deadline_set THEN FALSE ELSE acc.use_default_deadline,
             smallest_deadline |->
               IF deadline_set /\ operator_lt(profile.deadline, acc.smallest_deadline)
               THEN profile.deadline ELSE acc.smallest_deadline,
             use_default_liveliness_lease_duration |->
               IF lease_set THEN FALSE ELSE acc.use_default_liveliness_lease_duration,
             smallest_liveliness_lease_duration |->
               IF lease_set /\ operator_lt(profile.liveliness_lease_duration,
                                           acc.smallest_liveliness_lease_duration)
               THEN profile.liveliness_lease_duration
               ELSE acc.smallest_liveliness_lease_duration])

\* Mutant: the running minima start at zero.
PublisherValuesZero ==
  [use_manual_by_topic |-> FALSE, use_default_deadline |-> TRUE,
   smallest_deadline |-> RMW_DURATION_UNSPECIFIED,
   use_default_liveliness_lease_duration |-> TRUE,
   smallest_liveliness_lease_duration |-> RMW_DURATION_UNSPECIFIED]

\* The values of the locals before the loop.
PublisherValues ==
  [use_manual_by_topic |-> FALSE, use_default_deadline |-> TRUE,
   smallest_deadline |-> RMW_DURATION_INFINITE,
   use_default_liveliness_lease_duration |-> TRUE,
   smallest_liveliness_lease_duration |-> RMW_DURATION_INFINITE]

\* qos_profile_get_best_available_for_publisher; profile is
\* *publisher_profile at the return.
qos_profile_get_best_available_for_publisher(subscriptions_info, publisher_profile) ==
  IF subscriptions_info = NULL
  THEN [ret |-> "RMW_RET_INVALID_ARGUMENT", profile |-> publisher_profile]
  ELSE IF publisher_profile = NULL
  THEN [ret |-> "RMW_RET_INVALID_ARGUMENT", profile |-> publisher_profile]
  ELSE LET acc == ScanSubscriptions(subscriptions_info, 1, PublisherValues)
       IN [ret |-> "RMW_RET_OK",
           profile |->
             [publisher_profile EXCEPT
                !.reliability = IF @ = "BEST_AVAILABLE" THEN "RELIABLE" ELSE @,
                !.durability = IF @ = "BEST_AVAILABLE" THEN "TRANSIENT_LOCAL" ELSE @,
                !.liveliness =
                  IF @ = "BEST_AVAILABLE"
                  THEN (IF acc.use_manual_by_topic THEN "MANUAL_BY_TOPIC" ELSE "AUTOMATIC")
                  ELSE @,
                !.deadline =
                  IF operator_eq(deadline_best_available, @)
                  THEN (IF acc.use_default_deadline THEN deadline_default
                        ELSE acc.smallest_deadline)
                  ELSE @,
                !.liveliness_lease_duration =
                  IF operator_eq(liveliness_lease_duration_best_available, @)
                  THEN (IF acc.use_default_liveliness_lease_duration
                        THEN liveliness_lease_duration_default
                        ELSE acc.smallest_liveliness_lease_duration)
                  ELSE @]]

\* static bool _qos_profile_has_best_available_policy(qos_profile)
qos_profile_has_best_available_policy(qos_profile) ==
  IF qos_profile.reliability = "BEST_AVAILABLE" THEN TRUE
  ELSE IF qos_profile.durability = "BEST_AVAILABLE" THEN TRUE
  ELSE IF qos_profile.liveliness = "BEST_AVAILABLE" THEN TRUE
  ELSE IF operator_eq(deadline_best_available, qos_profile.deadline) THEN TRUE
  ELSE IF operator_eq(liveliness_lease_duration_best_available,
                      qos_profile.liveliness_lease_duration) THEN TRUE
  ELSE FALSE

\* What a call of qos_profile_get_best_available_for_topic_* leaves:
\* its status, *qos_profile, and how often it has called get_endpoint_info
\* and rmw_topic_endpoint_info_array_fini.
TopicOutcome(ret, profile, get_endpoint_info_calls, fini_calls) ==
  [ret |-> ret, profile |-> profile, get_endpoint_info_calls |-> get_endpoint_info_calls,
   fini_calls |-> fini_calls]

\* The tail of qos_profile_get_best_available_for_topic_*: the array has
\* been resolved against and finalized; fini_ret comes first.
FinalizedOutcome(resolved, fini_ret) ==
  IF fini_ret # "RMW_RET_OK" THEN TopicOutcome(fini_ret, resolved.profile, 1, 1)
  ELSE IF resolved.ret # "RMW_RET_OK" THEN TopicOutcome(resolved.ret, resolved.profile, 1, 1)
  ELSE TopicOutcome("RMW_RET_OK", resolved.profile, 1, 1)

\* Mutant: the endpoints are enumerated whatever the profile holds.
qos_profile_get_best_available_for_topic_subscription_always(node, topic_name, qos_profile, get_endpoint_info, fini_ret) ==
  IF node = NULL \/ topic_name = NULL \/ qos_profile = NULL
  THEN TopicOutcome("RMW_RET_INVALID_ARGUMENT", qos_profile, 0, 0)
  ELSE IF get_endpoint_info.ret # "RMW_RET_OK"
  THEN TopicOutcome(get_endpoint_info.ret, qos_profile, 1, 0)
  ELSE FinalizedOutcome(qos_profile_get_best_available_for_subscription(
                          get_endpoint_info.endpoints_info, qos_profile), fini_ret)

\* qos_profile_get_best_available_for_topic_subscription.  get_endpoint_info
\* is what the caller's function does when called: the status it returns
\* and the array it fills; fini_ret is the status of
\* rmw_topic_endpoint_info_array_fini.
qos_profile_get_best_available_for_topic_subscription(node, topic_name, qos_profile, get_endpoint_info, fini_ret) ==
  IF node = NULL THEN TopicOutcome("RMW_RET_INVALID_ARGUMENT", qos_profile, 0, 0)
  ELSE IF topic_name = NULL THEN TopicOutcome("RMW_RET_INVALID_ARGUMENT", qos_profile, 0, 0)
  ELSE IF qos_profile = NULL THEN TopicOutcome("RMW_RET_INVALID_ARGUMENT", qos_profile, 0, 0)
  ELSE IF ~qos_profile_has_best_available_policy(qos_profile)
  THEN TopicOutcome("RMW_RET_OK", qos_profile, 0, 0)
  ELSE IF get_endpoint_info.ret # "RMW_RET_OK"
  THEN TopicOutcome(get_endpoint_info.ret, qos_profile, 1, 0)
  ELSE FinalizedOutcome(qos_profile_get_best_available_for_subscription(
                          get_endpoint_info.endpoints_info, qos_profile), fini_ret)

\* qos_profile_get_best_available_for_topic_publisher
qos_profile_get_best_available_for_topic_publisher(node, topic_name, qos_profile, get_endpoint_info, fini_ret) ==
  IF node = NULL THEN TopicOutcome("RMW_RET_INVALID_ARGUMENT", qos_profile, 0, 0)
  ELSE IF topic_name = NULL THEN TopicOutcome("RMW_RET_INVALID_ARGUMENT", qos_profile, 0, 0)
  ELSE IF qos_profile = NULL THEN TopicOutcome("RMW_RET_INVALID_ARGUMENT", qos_profile, 0, 0)
  ELSE IF ~qos_profile_has_best_available_policy(qos_profile)
  THEN TopicOutcome("RMW_RET_OK", qos_profile, 0, 0)
  ELSE IF get_endpoint_info.ret # "RMW_RET_OK"
  THEN TopicOutcome(get_endpoint_info.ret, qos_profile, 1, 0)
  ELSE FinalizedOutcome(qos_profile_get_best_available_for_publisher(
                          get_endpoint_info.endpoints_info, qos_profile), fini_ret)

\* Mutant: rmw_qos_profile_sensor_data in the place of the services default.
rmw_qos_profile_sensor_data ==
  rmw_qos_profile_t("BEST_EFFORT", "VOLATILE", "SYSTEM_DEFAULT",
                    RMW_DURATION_UNSPECIFIED, RMW_DURATION_UNSPECIFIED)

\* rmw_qos_profile_services_default of rmw/qos_profiles.h: KEEP_LAST, depth
\* 10, RELIABLE, VOLATILE, no deadline, no lifespan, liveliness
\* SYSTEM_DEFAULT, no lease.
rmw_qos_profile_services_default ==
  rmw_qos_profile_t("RELIABLE", "VOLATILE", "SYSTEM_DEFAULT",
                    RMW_DURATION_UNSPECIFIED, RMW_DURATION_UNSPECIFIED)

\* Mutant: every policy is taken from the services default.
qos_profile_update_best_available_for_services_all(qos_profile) ==
  [qos_profile EXCEPT
     !.reliability = rmw_qos_profile_services_default.reliability,
     !.durability = rmw_qos_profile_services_default.durability,
     !.liveliness = rmw_qos_profile_services_default.liveliness,
     !.deadline = rmw_qos_profile_services_default.deadline,
     !.liveliness_lease_duration = rmw_qos_profile_services_default.liveliness_lease_duration]

\* qos_profile_update_best_available_for_services: result
qos_profile_update_best_available_for_services(qos_profile) ==
  [qos_profile EXCEPT
     !.reliability =
       IF @ = "BEST_AVAILABLE" THEN rmw_qos_profile_services_default.reliability ELSE @,
     !.durability =
       IF @ = "BEST_AVAILABLE" THEN rmw_qos_profile_services_default.durability ELSE @,
     !.liveliness =
       IF @ = "BEST_AVAILABLE" THEN rmw_qos_profile_services_default.liveliness ELSE @,
     !.deadline =
       IF operator_eq(deadline_best_available, @)
       THEN rmw_qos_profile_services_default.deadline ELSE @,
     !.liveliness_lease_duration =
       IF operator_eq(liveliness_lease_duration_best_available, @)
       THEN rmw_qos_profile_services_default.liveliness_lease_duration ELSE @]

(***************************************************************************)
(* clamp_rmw_time_to_dds_time (gid_utils.cpp).  Here the whole range of    *)
(* uint64_t matters: a field of the rmw_time_t is written with the three   *)
(* digits <<d2, d1, d0>> of its value d2 * 10^18 + d1 * 10^9 + d0.         *)
(***************************************************************************)
sec_to_ns == 1000000000
INT_MAX == 2147483647

\* The two digits to the base 10^9 of a number below 10^18.
Pair(n) == <<n \div sec_to_ns, n % sec_to_ns>>

\* The locals of clamp_rmw_time_to_dds_time after its first two tests.
\* quotient is t.nsec / sec_to_ns, the two leading digits of t.nsec;
\* limit is INT_MAX - ns_sec_adjust.
ClampLocals(time) ==
  LET quotient == <<time.nsec[1], time.nsec[2]>>
      overflow_nsec == U64Less(Pair(INT_MAX), quotient)
      ns_sec_adjust == IF overflow_nsec THEN INT_MAX
                       ELSE quotient[1] * sec_to_ns + quotient[2]
      limit == INT_MAX - ns_sec_adjust
  IN [ns_sec_adjust |-> ns_sec_adjust, overflow_nsec |-> overflow_nsec, limit |-> limit,
      overflow_sec |-> time.sec[1] > 0 \/ U64Less(Pair(limit), <<time.sec[2], time.sec[3]>>)]

\* Mutant: the nanoseconds of a length that DDS cannot hold are not
\* saturated.
clamp_rmw_time_to_dds_time_unsaturated(time) ==
  rmw_time_t(IF ClampLocals(time).overflow_sec THEN <<0>> \o Pair(INT_MAX)
             ELSE <<0>> \o Pair(time.sec[2] * sec_to_ns + time.sec[3]
                                + ClampLocals(time).ns_sec_adjust),
             <<0, 0, time.nsec[3]>>)

\* rmw_dds_common::clamp_rmw_time_to_dds_time
clamp_rmw_time_to_dds_time(time) ==
  rmw_time_t(IF ClampLocals(time).overflow_sec THEN <<0>> \o Pair(INT_MAX)
             ELSE <<0>> \o Pair(time.sec[2] * sec_to_ns + time.sec[3]
                                + ClampLocals(time).ns_sec_adjust),
             IF ClampLocals(time).overflow_nsec \/ ClampLocals(time).overflow_sec
             THEN <<0, 0, sec_to_ns - 1>>
             ELSE <<time.nsec[1] - Pair(ClampLocals(time).ns_sec_adjust)[1],
                    time.nsec[2] - Pair(ClampLocals(time).ns_sec_adjust)[2],
                    time.nsec[3]>>)

(***************************************************************************)
(* Calls: the inputs of the operations.                                    *)
(***************************************************************************)
HashA == [version |-> 1, value |-> 7]
InfoA == EntityInfo("rt/chatter", "String_", ZeroTypeHash, P1, "reliable")
InfoB == EntityInfo("rt/other", "Int32_", HashA, P2, "best_effort")
EntityInfos == {InfoA, InfoB}
NoInfo == EntityInfo("", "", ZeroTypeHash, NoGid, "")

NodeT == [namespace |-> "/", name |-> "talker"]
NodeL == [namespace |-> "/ns", name |-> "listener"]
Nodes == {NodeT, NodeL}
NoNode == [namespace |-> "", name |-> ""]

\* node_entities_info_seq values carried by peer messages
SeqT == <<[NodeEntitiesInfo("/", "talker") EXCEPT !.writer_gid_seq = <<convert_gid_to_msg(E1)>>]>>
SeqTL == <<NodeEntitiesInfo("/", "talker"),
           [NodeEntitiesInfo("/ns", "listener") EXCEPT
              !.reader_gid_seq = <<convert_gid_to_msg(E2)>>]>>
NodeSeqs == {<<>>, SeqT, SeqTL}

Call_(name, gid, info, pgid, node, seq, enclave, cb) ==
  [name |-> name, gid |-> gid, info |-> info, pgid |-> pgid, node |-> node,
   seq |-> seq, enclave |-> enclave, cb |-> cb,
   topic_name |-> "rt/chatter", demangle_topic |-> "ros", demangle_type |-> "identity",
   has_enclaves |-> TRUE, has_count |-> TRUE, valid_arguments |-> TRUE, fail_at |-> 0]

\* A call of a query with its topic and demangling arguments.
QueryCall(name, topic_name, demangle_topic, demangle_type) ==
  [Call_(name, NoGid, NoInfo, NoGid, NoNode, <<>>, "", NoCallback) EXCEPT
     !.topic_name = topic_name, !.demangle_topic = demangle_topic,
     !.demangle_type = demangle_type]

NoCall == Call_("none", NoGid, NoInfo, NoGid, NoNode, <<>>, "", NoCallback)

EndpointCalls(gids, infos) ==
  {Call_(n, g, i, NoGid, NoNode, <<>>, "", NoCallback) :
     n \in {"add_writer", "add_reader"}, g \in gids, i \in infos}
  \cup {Call_(n, g, NoInfo, NoGid, NoNode, <<>>, "", NoCallback) :
     n \in {"remove_writer", "remove_reader"}, g \in gids}

ParticipantCalls(pgids, seqs) ==
  {Call_("add_participant", NoGid, NoInfo, p, NoNode, <<>>, e, NoCallback) :
     p \in pgids, e \in Enclaves}
  \cup {Call_("remove_participant", NoGid, NoInfo, p, NoNode, <<>>, "", NoCallback) :
     p \in pgids}
  \cup {Call_("update_participant_entities", NoGid, NoInfo, p, NoNode, s, "", NoCallback) :
     p \in pgids, s \in seqs}

\* Local node operations, with their asserted preconditions.
LocalNodeCalls(c) ==
  {Call_("add_node", NoGid, NoInfo, p, n, <<>>, "", NoCallback) :
     p \in {q \in ParticipantGids : HasParticipant(c, q)}, n \in Nodes}
  \cup {Call_(name, NoGid, NoInfo, pn[1], pn[2], <<>>, "", NoCallback) :
     name \in {"remove_node"},
     pn \in {x \in ParticipantGids \X Nodes : HasNode(c, x[1], x[2].name, x[2].namespace)}}
  \cup {Call_(name, g, NoInfo, pn[1], pn[2], <<>>, "", NoCallback) :
     name \in {"associate_writer", "dissociate_writer",
               "associate_reader", "dissociate_reader"},
     g \in EndpointGids,
     pn \in {x \in ParticipantGids \X Nodes : HasNode(c, x[1], x[2].name, x[2].namespace)}}

CallbackCalls ==
  {Call_("set_on_change_callback", NoGid, NoInfo, NoGid, NoNode, <<>>, "", cb) :
     cb \in Callbacks}
  \cup {Call_("clear_on_change_callback", NoGid, NoInfo, NoGid, NoNode, <<>>, "", NoCallback)}

QueryCalls ==
  {Call_(n, NoGid, NoInfo, NoGid, NoNode, <<>>, "", NoCallback) :
     n \in {"get_names_and_types", "get_writer_count"}}
  \cup {[Call_("get_names_and_types", NoGid, NoInfo, NoGid, NoNode, <<>>, "", NoCallback)
           EXCEPT !.valid_arguments = FALSE]}

IsQuery(op) ==
  op.name \in {"get_names_and_types", "get_writer_count", "get_reader_count",
               "get_writers_info_by_topic", "get_readers_info_by_topic",
               "get_writer_names_and_types_by_node", "get_reader_names_and_types_by_node",
               "get_number_of_nodes", "get_node_names"}
IsEndpointCall(op) ==
  op.name \in {"add_writer", "add_reader", "remove_writer", "remove_reader"}
IsAdd(op) == op.name \in {"add_writer", "add_reader"}
MapOf(op) == IF op.name \in {"add_writer", "remove_writer"} THEN "writers" ELSE "readers"

\* The body of the operation a call names, run on cache value c.
Run(c, op) ==
  CASE op.name = "add_writer" ->
         add_entity(c, op.gid, op.info.topic_name, op.info.topic_type,
                    op.info.topic_type_hash, op.info.participant_gid, op.info.qos, FALSE)
    [] op.name = "add_reader" ->
         add_entity(c, op.gid, op.info.topic_name, op.info.topic_type,
                    op.info.topic_type_hash, op.info.participant_gid, op.info.qos, TRUE)
    [] op.name = "remove_writer" -> remove_entity(c, op.gid, FALSE)
    [] op.name = "remove_reader" -> remove_entity(c, op.gid, TRUE)
    [] op.name = "add_participant" -> add_participant(c, op.pgid, op.enclave)
    [] op.name = "remove_participant" -> remove_participant(c, op.pgid)
    [] op.name = "update_participant_entities" ->
         update_participant_entities(c, create_participant_info_message(op.pgid, op.seq))
    [] op.name = "add_node" -> add_node(c, op.pgid, op.node.name, op.node.namespace)
    [] op.name = "remove_node" -> remove_node(c, op.pgid, op.node.name, op.node.namespace)
    [] op.name = "associate_writer" ->
         associate_writer(c, op.gid, op.pgid, op.node.name, op.node.namespace)
    [] op.name = "dissociate_writer" ->
         dissociate_writer(c, op.gid, op.pgid, op.node.name, op.node.namespace)
    [] op.name = "associate_reader" ->
         associate_reader(c, op.gid, op.pgid, op.node.name, op.node.namespace)
    [] op.name = "dissociate_reader" ->
         dissociate_reader(c, op.gid, op.pgid, op.node.name, op.node.namespace)
    [] op.name = "set_on_change_callback" -> set_on_change_callback(c, op.cb)
    [] op.name = "clear_on_change_callback" -> clear_on_change_callback(c)
    [] op.name = "get_writer_count" -> get_writer_count(c, op.topic_name, op.has_count)
    [] op.name = "get_reader_count" -> get_reader_count(c, op.topic_name, op.has_count)
    [] op.name = "get_writers_info_by_topic" ->
         get_writers_info_by_topic_alloc(c, op.topic_name, op.demangle_type, op.fail_at)
    [] op.name = "get_readers_info_by_topic" ->
         get_readers_info_by_topic_alloc(c, op.topic_name, op.demangle_type, op.fail_at)
    [] op.name = "get_writer_names_and_types_by_node" ->
         get_writer_names_and_types_by_node(c, op.node.name, op.node.namespace,
                                            op.demangle_topic, op.demangle_type, op.fail_at)
    [] op.name = "get_reader_names_and_types_by_node" ->
         get_reader_names_and_types_by_node(c, op.node.name, op.node.namespace,
                                            op.demangle_topic, op.demangle_type, op.fail_at)
    [] op.name = "get_number_of_nodes" -> get_number_of_nodes(c)
    [] op.name = "get_node_names" -> get_node_names(c, op.has_enclaves, op.fail_at)
    [] op.name = "get_names_and_types" ->
         get_names_and_types(c, op.demangle_topic, op.demangle_type, op.valid_arguments)

(***************************************************************************)
(* Threads.  A thread running an operation is at one of these positions:   *)
(*   idle        outside the cache                                         *)
(*   waiting     in the lock_guard constructor                             *)
(*   locked      owns the mutex, body not yet run                          *)
(*   notify      body run, about to invoke on_change_callback_()           *)
(*   in_callback inside on_change_callback_()                              *)
(*               (nested: what the call of get_names_and_types that the    *)
(*               callback made with an invalid allocator returned)         *)
(*   cb_reenter  inside the callback, in the lock_guard constructor of the *)
(*               cache operation the callback calls                        *)
(*   cb_nested   inside the callback, inside that operation                *)
(*   unlock      body and callback done, lock_guard not yet destroyed      *)
(*   populate    get_names_and_types after its locked block                *)
(*   returned    back from a function that locks nothing (a QoS function,  *)
(*               get_names_and_types refusing its arguments), its outcome  *)
(*               in hand                                                   *)
(***************************************************************************)
Maps == [w |-> data_writers_, r |-> data_readers_, p |-> participants_]
MapsOf(c) == [w |-> c.data_writers_, r |-> c.data_readers_, p |-> c.participants_]
CacheNow == Cache(data_writers_, data_readers_, participants_, on_change_callback_)

EndpointKeys == {"writers", "readers"} \X EndpointGids

\* ticket: the rank of this operation among the mutations that trigger the
\* callback; k: the rank of its callback invocation among all invocations;
\* post: the three maps as the body left them.
IdleCur == [op |-> NoCall, ret |-> "none", callback |-> FALSE, cb |-> NoCallback,
            ticket |-> 0, k |-> 0, post |-> "none", error |-> "none",
            nested |-> "none"]

TotalInvoked == invoked["f"] + invoked["g"]

Init ==
  /\ data_writers_ = EmptyMap
  /\ data_readers_ = EmptyMap
  /\ participants_ = EmptyMap
  /\ on_change_callback_ = NoCallback
  /\ mutex_ = NoThread
  /\ pc = [t \in Threads |-> "idle"]
  /\ cur = [t \in Threads |-> IdleCur]
  /\ ncalls = 0
  /\ invoked = [cb \in Callbacks |-> 0]
  /\ applied = 0
  /\ committed = [w |-> EmptyMap, r |-> EmptyMap, p |-> EmptyMap]
  /\ net_added = [k \in EndpointKeys |-> 0]
  /\ last_call = [k \in EndpointKeys |-> "none"]
  /\ toucher = [k \in EndpointKeys |-> NoThread]
  /\ last_set = NoCallback

\* Mutant: no mutual exclusion.
lock_guard_none(mutex, t) == TRUE

\* Mutant: a recursive mutex, its owner may lock it again.
lock_guard_recursive(mutex, t) == mutex \in {NoThread, t}

\* std::lock_guard<std::mutex> guard(mutex_): the constructor returns only
\* once the mutex is free, whoever asks (std::mutex is not recursive).
lock_guard(mutex, t) == mutex = NoThread

\* The operation returns before it reaches a lock_guard: the argument
\* checks of get_names_and_types.
returns_before_lock(op) == op.name = "get_names_and_types" /\ ~op.valid_arguments

\* A thread calls an operation and reaches its lock_guard, or the operation
\* refuses its arguments and returns without locking.
Call(t, op) ==
  /\ pc[t] = "idle"
  /\ ncalls < MaxOps
  /\ pc' = [pc EXCEPT ![t] = IF returns_before_lock(op) THEN "returned" ELSE "waiting"]
  /\ cur' = [cur EXCEPT ![t] =
               [IdleCur EXCEPT !.op = op,
                               !.ret = IF returns_before_lock(op)
                                       THEN Run(CacheNow, op).ret ELSE "none"]]
  /\ ncalls' = ncalls + 1
  /\ last_call' = IF IsEndpointCall(op)
                  THEN [last_call EXCEPT ![<<MapOf(op), op.gid>>] =
                          IF IsAdd(op) THEN "add" ELSE "remove"]
                  ELSE last_call
  /\ toucher' = IF IsEndpointCall(op)
                THEN [toucher EXCEPT ![<<MapOf(op), op.gid>>] =
                        IF @ \in {NoThread, t} THEN t ELSE "many"]
                ELSE toucher
  /\ UNCHANGED <<data_writers_, data_readers_, participants_, on_change_callback_,
                 mutex_, invoked, applied, committed, net_added, last_set>>

\* The lock_guard constructor returns: the thread owns the mutex.
Acquire(t) ==
  /\ pc[t] \in {"waiting", "cb_reenter"}
  /\ lock_guard(mutex_, t)
  /\ mutex_' = t
  /\ pc' = [pc EXCEPT ![t] = IF pc[t] = "waiting" THEN "locked" ELSE "cb_nested"]
  /\ UNCHANGED <<data_writers_, data_readers_, participants_, on_change_callback_,
                 cur, ncalls, invoked, applied, committed, net_added, last_call, toucher,
                 last_set>>

\* The body of the operation up to the callback macro: the state change and
\* the macro's test.
Execute(t) ==
  /\ pc[t] = "locked"
  /\ LET out == Run(CacheNow, cur[t].op)
         op == cur[t].op
     IN /\ data_writers_' = out.cache.data_writers_
        /\ data_readers_' = out.cache.data_readers_
        /\ participants_' = out.cache.participants_
        /\ on_change_callback_' = out.cache.on_change_callback_
        /\ applied' = IF out.callback THEN applied + 1 ELSE applied
        /\ cur' = [cur EXCEPT ![t] =
                     [op |-> op, ret |-> out.ret, callback |-> out.callback,
                      cb |-> IF out.callback THEN on_change_callback_ ELSE NoCallback,
                      ticket |-> IF out.callback THEN applied + 1 ELSE 0,
                      k |-> 0, post |-> MapsOf(out.cache), error |-> "none",
                      nested |-> "none"]]
        /\ pc' = [pc EXCEPT ![t] = IF out.callback THEN "notify" ELSE "unlock"]
        /\ net_added' = IF IsEndpointCall(op) /\ out.ret
                        THEN [net_added EXCEPT ![<<MapOf(op), op.gid>>] =
                                IF IsAdd(op) THEN @ + 1 ELSE @ - 1]
                        ELSE net_added
        /\ last_set' = IF op.name = "set_on_change_callback" THEN op.cb
                       ELSE IF op.name = "clear_on_change_callback" THEN NoCallback
                       ELSE last_set
  /\ UNCHANGED <<mutex_, ncalls, invoked, committed, last_call, toucher>>

\* graph_cache_ptr->on_change_callback_(): the callback is entered.
Invoke(t) ==
  /\ pc[t] = "notify"
  /\ invoked' = [invoked EXCEPT ![cur[t].cb] = @ + 1]
  /\ cur' = [cur EXCEPT ![t].k = TotalInvoked + 1]
  /\ pc' = [pc EXCEPT ![t] = "in_callback"]
  /\ UNCHANGED <<data_writers_, data_readers_, participants_, on_change_callback_,
                 mutex_, ncalls, applied, committed, net_added, last_call, toucher,
                 last_set>>

\* The callback that calls back into the cache first calls
\* get_names_and_types with an invalid allocator, which returns to it
\* without locking.
NestedCheck(t) ==
  /\ pc[t] = "in_callback"
  /\ CallbackBody(cur[t].cb) = "reenter"
  /\ cur[t].nested = "none"
  /\ cur' = [cur EXCEPT ![t].nested =
               get_names_and_types(CacheNow, "ros", "identity", FALSE).ret]
  /\ UNCHANGED <<data_writers_, data_readers_, participants_, on_change_callback_,
                 mutex_, pc, ncalls, invoked, applied, committed, net_added, last_call,
                 toucher, last_set>>

\* The body of the callback: it returns, or it calls a cache operation and
\* reaches that operation's lock_guard.  From cb_nested (the nested
\* clear_on_change_callback got the mutex) the nested body runs and both return.
Callback(t) ==
  /\ pc[t] \in {"in_callback", "cb_nested"}
  /\ (pc[t] = "in_callback" /\ CallbackBody(cur[t].cb) = "reenter")
       => cur[t].nested # "none"
  /\ pc' = [pc EXCEPT ![t] =
              IF pc[t] = "in_callback" /\ CallbackBody(cur[t].cb) = "reenter"
              THEN "cb_reenter" ELSE "unlock"]
  /\ on_change_callback_' =
       IF pc[t] = "cb_nested"
       THEN clear_on_change_callback(CacheNow).cache.on_change_callback_
       ELSE on_change_callback_
  /\ UNCHANGED <<data_writers_, data_readers_, participants_, mutex_, cur, ncalls,
                 invoked, applied, committed, net_added, last_call, toucher, last_set>>

\* The callback's nested call locks the mutex its own thread owns.  The
\* behaviour is undefined: the thread blocks for ever (no step is taken from
\* cb_reenter), or lock() throws std::system_error, which unwinds the callback
\* and the operation, whose lock_guard then releases the mutex.
LockThrows(t) ==
  /\ pc[t] = "cb_reenter"
  /\ mutex_ = t
  /\ pc' = [pc EXCEPT ![t] = "unlock"]
  /\ cur' = [cur EXCEPT ![t].error = "system_error"]
  /\ UNCHANGED <<data_writers_, data_readers_, participants_, on_change_callback_,
                 mutex_, ncalls, invoked, applied, committed, net_added, last_call,
                 toucher, last_set>>

\* Which operations leave their lock_guard's scope before they return.
unlocks_before_return(op) == op.name = "get_names_and_types"

\* The lock_guard is destroyed: at the return of the operation, or at the end
\* of the block that holds it.
Release(t) ==
  /\ pc[t] = "unlock"
  /\ mutex_' = NoThread
  /\ committed' = Maps
  /\ pc' = [pc EXCEPT ![t] =
              IF unlocks_before_return(cur[t].op) THEN "populate" ELSE "idle"]
  /\ cur' = [cur EXCEPT ![t] = IF unlocks_before_return(cur[t].op) THEN @ ELSE IdleCur]
  /\ UNCHANGED <<data_writers_, data_readers_, participants_, on_change_callback_,
                 ncalls, invoked, applied, net_added, last_call, toucher, last_set>>

\* __populate_rmw_names_and_types, run on the local copy, and the return.
Populate(t) ==
  /\ pc[t] = "populate"
  /\ pc' = [pc EXCEPT ![t] = "idle"]
  /\ cur' = [cur EXCEPT ![t] = IdleCur]
  /\ UNCHANGED <<data_writers_, data_readers_, participants_, on_change_callback_,
                 mutex_, ncalls, invoked, applied, committed, net_added, last_call,
                 toucher, last_set>>

\* The caller goes on, the outcome is dropped.
Resume(t) ==
  /\ pc[t] = "returned"
  /\ pc' = [pc EXCEPT ![t] = "idle"]
  /\ cur' = [cur EXCEPT ![t] = IdleCur]
  /\ UNCHANGED <<data_writers_, data_readers_, participants_, on_change_callback_,
                 mutex_, ncalls, invoked, applied, committed, net_added, last_call,
                 toucher, last_set>>

(***************************************************************************)
(* Spec: one thread drives the cache through any sequence of operations.   *)
(***************************************************************************)
SeqCalls(c) ==
  EndpointCalls(EndpointGids, EntityInfos) \cup ParticipantCalls(ParticipantGids, NodeSeqs)
  \cup LocalNodeCalls(c) \cup CallbackCalls \cup QueryCalls

Next ==
  \/ \E op \in SeqCalls(CacheNow) : Call("t1", op)
  \/ Acquire("t1")
  \/ Execute("t1")
  \/ Invoke("t1")
  \/ NestedCheck("t1")
  \/ Callback("t1")
  \/ LockThrows("t1")
  \/ Release("t1")
  \/ Populate("t1")
  \/ Resume("t1")

Spec == Init /\ [][Next]_vars

(***************************************************************************)
(* SpecConc: two threads call operations that have no precondition.        *)
(***************************************************************************)
ConcCalls ==
  EndpointCalls(EndpointGids, {InfoA}) \cup ParticipantCalls({P1}, {SeqT})
  \cup CallbackCalls \cup QueryCalls

NextConc ==
  \/ \E t \in Threads : \E op \in ConcCalls : Call(t, op)
  \/ \E t \in Threads : Acquire(t)
  \/ \E t \in Threads : Execute(t)
  \/ \E t \in Threads : Invoke(t)
  \/ \E t \in Threads : NestedCheck(t)
  \/ \E t \in Threads : Callback(t)
  \/ \E t \in Threads : LockThrows(t)
  \/ \E t \in Threads : Release(t)
  \/ \E t \in Threads : Populate(t)
  \/ \E t \in Threads : Resume(t)

SpecConc == Init /\ [][NextConc]_vars

(***************************************************************************)
(* SpecQuery: one thread fills the cache from discovery and queries it.    *)
(***************************************************************************)
\* A second type on the topic of InfoA, and a topic that is not a ROS topic.
InfoC == EntityInfo("rt/chatter", "Int32_", HashA, P2, "best_effort")
InfoD == EntityInfo("rq/service", "Srv_", ZeroTypeHash, P1, "reliable")
QueryInfos == {InfoA, InfoC, InfoD}

\* A peer message in which two nodes list the same writer.
SeqBoth ==
  <<[NodeEntitiesInfo("/", "talker") EXCEPT !.writer_gid_seq = <<convert_gid_to_msg(E1)>>],
    [NodeEntitiesInfo("/ns", "listener") EXCEPT
       !.writer_gid_seq = <<convert_gid_to_msg(E1)>>,
       !.reader_gid_seq = <<convert_gid_to_msg(E2)>>]>>

Topics == {"rt/chatter", "rq/service"}

GraphQueryCalls ==
  {QueryCall(n, "rt/chatter", "ros", "ros_type") :
     n \in {"get_writer_count", "get_reader_count", "get_writers_info_by_topic",
            "get_readers_info_by_topic", "get_names_and_types"}}
  \cup {QueryCall("get_names_and_types", "rt/chatter", "identity", "identity")}
  \cup {[QueryCall(n, "rt/chatter", "ros", "ros_type") EXCEPT !.has_count = FALSE] :
          n \in {"get_writer_count", "get_reader_count"}}

DiscoveryCalls ==
  EndpointCalls(EndpointGids, QueryInfos) \cup ParticipantCalls({P1}, {SeqT, SeqBoth})
  \cup GraphQueryCalls

NextQuery ==
  \/ \E op \in DiscoveryCalls : Call("t1", op)
  \/ Acquire("t1")
  \/ Execute("t1")
  \/ Release("t1")
  \/ Populate("t1")

SpecQuery == Init /\ [][NextQuery]_vars

(***************************************************************************)
(* SpecNodes: one thread fills the cache from discovery, may register the  *)
(* observing callback, and asks the node queries and for the writers of a  *)
(* topic, with an allocator that does not fail.                            *)
(***************************************************************************)
NodeQueryCall(name, node, demangle_topic, demangle_type, has_enclaves, fail_at) ==
  [Call_(name, NoGid, NoInfo, NoGid, node, <<>>, "", NoCallback) EXCEPT
     !.demangle_topic = demangle_topic, !.demangle_type = demangle_type,
     !.has_enclaves = has_enclaves, !.fail_at = fail_at]

\* A peer message whose node lists two writers.
SeqTwo ==
  <<[NodeEntitiesInfo("/", "talker") EXCEPT
       !.writer_gid_seq = <<convert_gid_to_msg(E1), convert_gid_to_msg(E2)>>]>>

\* A node name that occurs only with another namespace.
NodeX == [namespace |-> "/", name |-> "listener"]
AskedNodes == {NodeT, NodeL, NodeX}

ByNodeQueries == {"get_writer_names_and_types_by_node", "get_reader_names_and_types_by_node"}

NodeQueryCalls ==
  {NodeQueryCall(n, node, "ros", "ros_type", TRUE, 0) : n \in ByNodeQueries, node \in AskedNodes}
  \cup {NodeQueryCall("get_number_of_nodes", NoNode, "ros", "ros_type", TRUE, 0)}
  \cup {NodeQueryCall("get_node_names", NoNode, "ros", "ros_type", e, 0) : e \in BOOLEAN}
  \cup {QueryCall("get_writers_info_by_topic", "rt/chatter", "ros", "identity")}

NodeCalls ==
  EndpointCalls(EndpointGids, QueryInfos)
  \cup ParticipantCalls(ParticipantGids, {SeqTwo, SeqBoth})
  \cup {Call_("set_on_change_callback", NoGid, NoInfo, NoGid, NoNode, <<>>, "", "f")}
  \cup NodeQueryCalls

NextNodes ==
  \/ \E op \in NodeCalls : Call("t1", op)
  \/ Acquire("t1")
  \/ Execute("t1")
  \/ Invoke("t1")
  \/ Callback("t1")
  \/ Release("t1")

SpecNodes == Init /\ [][NextNodes]_vars

(***************************************************************************)
(* SpecAlloc: one thread fills the cache and asks the queries that         *)
(* allocate their output, with an allocator that fails at a chosen         *)
(* request.                                                                *)
(***************************************************************************)
AllocBuilders ==
  {Call_("add_writer", E1, InfoA, NoGid, NoNode, <<>>, "", NoCallback),
   Call_("add_writer", E2, InfoC, NoGid, NoNode, <<>>, "", NoCallback),
   Call_("add_reader", E2, InfoC, NoGid, NoNode, <<>>, "", NoCallback),
   Call_("update_participant_entities", NoGid, NoInfo, P1, NoNode, SeqTwo, "", NoCallback),
   Call_("update_participant_entities", NoGid, NoInfo, P2, NoNode, SeqBoth, "", NoCallback),
   Call_("set_on_change_callback", NoGid, NoInfo, NoGid, NoNode, <<>>, "", "f")}

AllocQueries ==
  UNION {{NodeQueryCall("get_names_and_types", NoNode, "ros", "ros_type", TRUE, k),
          NodeQueryCall("get_writer_names_and_types_by_node", NodeT, "ros", "ros_type", TRUE, k),
          NodeQueryCall("get_reader_names_and_types_by_node", NodeL, "ros", "ros_type", TRUE, k),
          NodeQueryCall("get_node_names", NoNode, "ros", "ros_type", TRUE, k),
          NodeQueryCall("get_node_names", NoNode, "ros", "ros_type", FALSE, k),
          NodeQueryCall("get_writers_info_by_topic", NoNode, "ros", "ros_type", TRUE, k),
          NodeQueryCall("get_readers_info_by_topic", NoNode, "ros", "ros_type", TRUE, k)} :
           k \in 0..MaxRequests}

NextAlloc ==
  \/ \E op \in AllocBuilders \cup AllocQueries : Call("t1", op)
  \/ Acquire("t1")
  \/ Execute("t1")
  \/ Invoke("t1")
  \/ Callback("t1")
  \/ Release("t1")
  \/ Populate("t1")

SpecAlloc == Init /\ [][NextAlloc]_vars

(***************************************************************************)
(* Discovery of one remote writer.  The vendor layer reports the writer    *)
(* (add_writer) and its participant (add_participant); the participant's   *)
(* ParticipantEntitiesInfo message arrives on the discovery topic          *)
(* (update_participant_entities).  Nothing orders the three arrivals, and  *)
(* any of them can be delivered again.                                     *)
(***************************************************************************)
WriterArrives == Call_("add_writer", E1, InfoA, NoGid, NoNode, <<>>, "", NoCallback)
ParticipantArrives == Call_("add_participant", NoGid, NoInfo, P1, NoNode, <<>>, "encA", NoCallback)
MessageArrives == Call_("update_participant_entities", NoGid, NoInfo, P1, NoNode, SeqT, "", NoCallback)
AskWriters == QueryCall("get_writers_info_by_topic", InfoA.topic_name, "ros", "identity")

ArrivalCalls == {WriterArrives, ParticipantArrives, MessageArrives, AskWriters}

NextOrder ==
  \/ \E op \in ArrivalCalls : Call("t1", op)
  \/ Acquire("t1")
  \/ Execute("t1")
  \/ Release("t1")

SpecOrder == Init /\ [][NextOrder]_vars

(***************************************************************************)
(* The QoS functions are free functions without state: each step calls one *)
(* of them on inputs drawn from the sets below and records the call and    *)
(* what it returned.                                                       *)
(***************************************************************************)
\* Endpoints in one rmw_topic_endpoint_info_array_t.
MaxPeers == 2

ReliabilityPolicies == {"SYSTEM_DEFAULT", "RELIABLE", "BEST_EFFORT", "UNKNOWN", "BEST_AVAILABLE"}
DurabilityPolicies == {"SYSTEM_DEFAULT", "TRANSIENT_LOCAL", "VOLATILE", "UNKNOWN", "BEST_AVAILABLE"}
LivelinessPolicies ==
  {"SYSTEM_DEFAULT", "AUTOMATIC", "MANUAL_BY_NODE", "MANUAL_BY_TOPIC", "UNKNOWN", "BEST_AVAILABLE"}

Time(sec, nsec) == rmw_time_t(<<0, sec>>, <<0, nsec>>)
\* One second more than RMW_DURATION_INFINITE holds.
BeyondInfinite == rmw_time_t(<<9, 223372037>>, <<0, 0>>)
Durations ==
  {RMW_DURATION_UNSPECIFIED, Time(0, 500), Time(1, 0), Time(1, 500),
   deadline_best_available, RMW_DURATION_INFINITE, BeyondInfinite}

StrictProfile ==
  rmw_qos_profile_t("RELIABLE", "TRANSIENT_LOCAL", "MANUAL_BY_TOPIC", Time(1, 0), Time(1, 0))
WeakProfile ==
  rmw_qos_profile_t("BEST_EFFORT", "VOLATILE", "AUTOMATIC",
                    RMW_DURATION_UNSPECIFIED, RMW_DURATION_UNSPECIFIED)
UnknownProfile ==
  rmw_qos_profile_t("SYSTEM_DEFAULT", "UNKNOWN", "SYSTEM_DEFAULT",
                    RMW_DURATION_UNSPECIFIED, RMW_DURATION_UNSPECIFIED)
BestAvailableProfile ==
  rmw_qos_profile_t("BEST_AVAILABLE", "BEST_AVAILABLE", "BEST_AVAILABLE",
                    deadline_best_available, liveliness_lease_duration_best_available)
BaseProfiles == {StrictProfile, WeakProfile, UnknownProfile}

\* The profiles that differ from base in at most one policy.
Variations(base) ==
  {[base EXCEPT !.reliability = v] : v \in ReliabilityPolicies}
  \cup {[base EXCEPT !.durability = v] : v \in DurabilityPolicies}
  \cup {[base EXCEPT !.liveliness = v] : v \in LivelinessPolicies}
  \cup {[base EXCEPT !.deadline = v] : v \in Durations}
  \cup {[base EXCEPT !.liveliness_lease_duration = v] : v \in Durations}

CheckedProfiles == UNION {Variations(base) : base \in BaseProfiles}

\* The caller's reason buffer before the call.
StaleReason == [text |-> <<"stale">>]

CheckCall(publisher_qos, subscription_qos, has_compatibility, reason, reason_size, vsnprintf_fails_at) ==
  [name |-> "qos_profile_check_compatible", publisher_qos |-> publisher_qos,
   subscription_qos |-> subscription_qos, has_compatibility |-> has_compatibility,
   reason |-> reason, reason_size |-> reason_size,
   vsnprintf_fails_at |-> vsnprintf_fails_at]

\* Every pair of profiles with a reason buffer; the base pairs also without
\* a buffer, with a failing append and with the invalid arguments.
CheckCalls ==
  {CheckCall(p, s, TRUE, StaleReason, 2048, 0) : p \in CheckedProfiles, s \in CheckedProfiles}
  \cup UNION {{CheckCall(p, s, TRUE, NULL, 0, 0),
               CheckCall(p, s, TRUE, StaleReason, 0, 0),
               CheckCall(p, s, TRUE, StaleReason, 2048, 1),
               CheckCall(p, s, TRUE, StaleReason, 2048, 2),
               CheckCall(p, s, FALSE, StaleReason, 2048, 0),
               CheckCall(p, s, TRUE, NULL, 2048, 0)} :
                p \in BaseProfiles, s \in BaseProfiles}

\* The profiles of the endpoints already on the topic.
PeerProfiles ==
  {StrictProfile, WeakProfile, UnknownProfile, BestAvailableProfile,
   [StrictProfile EXCEPT !.reliability = "BEST_EFFORT"],
   [StrictProfile EXCEPT !.durability = "VOLATILE"],
   [StrictProfile EXCEPT !.liveliness = "AUTOMATIC"],
   [StrictProfile EXCEPT !.deadline = RMW_DURATION_UNSPECIFIED],
   [StrictProfile EXCEPT !.deadline = Time(0, 500)],
   [StrictProfile EXCEPT !.deadline = Time(1, 500)],
   [StrictProfile EXCEPT !.deadline = BeyondInfinite],
   [StrictProfile EXCEPT !.deadline = deadline_best_available],
   [StrictProfile EXCEPT !.liveliness_lease_duration = RMW_DURATION_UNSPECIFIED],
   [StrictProfile EXCEPT !.liveliness_lease_duration = Time(0, 500)],
   [StrictProfile EXCEPT !.liveliness_lease_duration = Time(1, 500)],
   [StrictProfile EXCEPT !.liveliness_lease_duration = BeyondInfinite],
   [StrictProfile EXCEPT
      !.liveliness_lease_duration = liveliness_lease_duration_best_available]}

PeerArrays ==
  UNION {{EndpointInfoArray(profiles) : profiles \in [1..n -> PeerProfiles]} : n \in 0..MaxPeers}

\* A profile to resolve in part, with a history, a depth and a lifespan of
\* its own.
KeepAllProfile ==
  [StrictProfile EXCEPT !.reliability = "BEST_AVAILABLE", !.deadline = deadline_best_available,
                        !.history = "KEEP_ALL", !.depth = 0, !.lifespan = Time(1, 500)]

\* The profiles to resolve: every policy BEST_AVAILABLE, some, one, none.
RequestedProfiles ==
  {BestAvailableProfile, StrictProfile, KeepAllProfile,
   [WeakProfile EXCEPT !.reliability = "BEST_AVAILABLE"],
   [WeakProfile EXCEPT !.durability = "BEST_AVAILABLE"],
   [WeakProfile EXCEPT !.liveliness = "BEST_AVAILABLE"],
   [StrictProfile EXCEPT !.deadline = deadline_best_available],
   [StrictProfile EXCEPT !.liveliness_lease_duration = liveliness_lease_duration_best_available]}

BestAvailableCall(name, endpoints_info, profile) ==
  [name |-> name, endpoints_info |-> endpoints_info, profile |-> profile]

BestAvailableCalls(name) ==
  {BestAvailableCall(name, a, p) : a \in PeerArrays, p \in RequestedProfiles}
  \cup {BestAvailableCall(name, NULL, BestAvailableProfile),
        BestAvailableCall(name, EndpointInfoArray(<<>>), NULL)}

\* The caller's node and topic name.
TheNode == [name |-> "talker"]
TheTopic == [name |-> "rt/chatter"]

\* What the caller's get_endpoint_info does: it fills its array and
\* returns RMW_RET_OK, or it fails and leaves the array as it was.
EndpointEnumerations ==
  {[ret |-> "RMW_RET_OK", endpoints_info |-> a] : a \in PeerArrays}
  \cup {[ret |-> r, endpoints_info |-> EndpointInfoArray(<<>>)] :
          r \in {"RMW_RET_ERROR", "RMW_RET_BAD_ALLOC"}}

TopicCall(name, node, topic_name, qos_profile, get_endpoint_info, fini_ret) ==
  [name |-> name, node |-> node, topic_name |-> topic_name, profile |-> qos_profile,
   get_endpoint_info |-> get_endpoint_info, endpoints_info |-> get_endpoint_info.endpoints_info,
   fini_ret |-> fini_ret]

\* Every profile to resolve with every outcome of the enumeration; a
\* failing finalization; each pointer NULL in turn.
TopicCalls(name) ==
  {TopicCall(name, TheNode, TheTopic, p, e, "RMW_RET_OK") :
     p \in RequestedProfiles, e \in EndpointEnumerations}
  \cup {TopicCall(name, TheNode, TheTopic, p,
                  [ret |-> "RMW_RET_OK", endpoints_info |-> EndpointInfoArray(<<StrictProfile>>)],
                  "RMW_RET_INVALID_ARGUMENT") : p \in RequestedProfiles}
  \cup {TopicCall(name, n[1], n[2], n[3],
                  [ret |-> "RMW_RET_OK", endpoints_info |-> EndpointInfoArray(<<WeakProfile>>)],
                  "RMW_RET_OK") :
          n \in {<<NULL, TheTopic, BestAvailableProfile>>,
                 <<TheNode, NULL, BestAvailableProfile>>,
                 <<TheNode, TheTopic, NULL>>}}

\* The profiles given to qos_profile_update_best_available_for_services,
\* among them the profiles it returns.
ServiceProfiles ==
  RequestedProfiles \cup CheckedProfiles
  \cup {[rmw_qos_profile_services_default EXCEPT !.history = "KEEP_ALL", !.depth = 0,
                                                 !.lifespan = Time(1, 0)],
        [BestAvailableProfile EXCEPT !.history = "KEEP_ALL", !.depth = 0,
                                     !.lifespan = Time(1, 0)]}

ServicesCall(qos_profile) ==
  [name |-> "qos_profile_update_best_available_for_services", profile |-> qos_profile]

\* A thread outside the cache calls a QoS function, which returns: the
\* thread holds the call and its outcome.
Returned(t, op, out) ==
  /\ pc[t] = "idle"
  /\ pc' = [pc EXCEPT ![t] = "returned"]
  /\ cur' = [cur EXCEPT ![t] = [IdleCur EXCEPT !.op = op, !.ret = out]]
  /\ UNCHANGED <<data_writers_, data_readers_, participants_, on_change_callback_,
                 mutex_, ncalls, invoked, applied, committed, net_added, last_call,
                 toucher, last_set>>

CheckCompatible(t) ==
  /\ pc[t] = "idle"
  /\ \E op \in CheckCalls :
       Returned(t, op, qos_profile_check_compatible(
                         op.publisher_qos, op.subscription_qos, op.has_compatibility,
                         op.reason, op.reason_size, op.vsnprintf_fails_at))

BestAvailableForSubscription(t) ==
  /\ pc[t] = "idle"
  /\ \E op \in BestAvailableCalls("qos_profile_get_best_available_for_subscription") :
       Returned(t, op, qos_profile_get_best_available_for_subscription(
                         op.endpoints_info, op.profile))

BestAvailableForPublisher(t) ==
  /\ pc[t] = "idle"
  /\ \E op \in BestAvailableCalls("qos_profile_get_best_available_for_publisher") :
       Returned(t, op, qos_profile_get_best_available_for_publisher(
                         op.endpoints_info, op.profile))

BestAvailableForTopicSubscription(t) ==
  /\ pc[t] = "idle"
  /\ \E op \in TopicCalls("qos_profile_get_best_available_for_topic_subscription") :
       Returned(t, op, qos_profile_get_best_available_for_topic_subscription(
                         op.node, op.topic_name, op.profile, op.get_endpoint_info,
                         op.fini_ret))

BestAvailableForTopicPublisher(t) ==
  /\ pc[t] = "idle"
  /\ \E op \in TopicCalls("qos_profile_get_best_available_for_topic_publisher") :
       Returned(t, op, qos_profile_get_best_available_for_topic_publisher(
                         op.node, op.topic_name, op.profile, op.get_endpoint_info,
                         op.fini_ret))

\* qos_profile_update_best_available_for_services returns the profile by
\* value and has no status.
UpdateBestAvailableForServices(t) ==
  /\ pc[t] = "idle"
  /\ \E qos_profile \in ServiceProfiles :
       Returned(t, ServicesCall(qos_profile),
                [ret |-> "RMW_RET_OK",
                 profile |-> qos_profile_update_best_available_for_services(qos_profile)])

NextQos ==
  \/ CheckCompatible("t1")
  \/ BestAvailableForSubscription("t1")
  \/ BestAvailableForPublisher("t1")
  \/ BestAvailableForTopicSubscription("t1")
  \/ BestAvailableForTopicPublisher("t1")
  \/ UpdateBestAvailableForServices("t1")
  \/ Resume("t1")

SpecQos == Init /\ [][NextQos]_vars

(***************************************************************************)
(* The specification of the clamp: a thread calls it on a time and holds   *)
(* what it returns.                                                        *)
(***************************************************************************)
\* Values of a uint64_t field: around zero, around one second, around
\* INT_MAX and INT_MAX seconds in nanoseconds, around 2^32, and the largest
\* (2^64 - 1 = 18446744073709551615).
ClampedValues ==
  {<<0, 0, 0>>, <<0, 0, 1>>, <<0, 0, 999999999>>, <<0, 1, 0>>, <<0, 1, 1>>,
   <<0, 2, 147483646>>, <<0, 2, 147483647>>, <<0, 2, 147483648>>, <<0, 4, 294967296>>,
   <<2, 147483646, 999999999>>, <<2, 147483647, 0>>, <<2, 147483647, 999999999>>,
   <<2, 147483648, 0>>, <<9, 223372036, 854775807>>, <<18, 446744073, 709551615>>}

ClampCall(time) == [name |-> "clamp_rmw_time_to_dds_time", time |-> time]

ClampRmwTime(t) ==
  /\ pc[t] = "idle"
  /\ \E sec \in ClampedValues, nsec \in ClampedValues :
       Returned(t, ClampCall(rmw_time_t(sec, nsec)),
                clamp_rmw_time_to_dds_time(rmw_time_t(sec, nsec)))

NextClamp == ClampRmwTime("t1") \/ Resume("t1")

SpecClamp == Init /\ [][NextClamp]_vars

(***************************************************************************)
(* Properties.                                                             *)
(***************************************************************************)
MapFor(kind) == IF kind = "writers" THEN data_writers_ ELSE data_readers_

\* Thread t runs the body of an add/remove of a writer or reader in this step.
ExecutesEndpoint(t) ==
  pc[t] = "locked" /\ pc'[t] # "locked" /\ IsEndpointCall(cur[t].op)

\* C1: once every call has returned, for every gid that a single thread
\* operated on (or none did), the gid is a key of the writers (readers) map
\* exactly if the last add/remove call made on it was an add, whatever the
\* interleaving of the threads was.
C1_FinalKeysAreAddsMinusRemoves ==
  (\A t \in Threads : pc[t] = "idle") =>
    \A k \in EndpointKeys :
      toucher[k] # "many" => ((k[2] \in DOMAIN MapFor(k[1])) <=> (last_call[k] = "add"))

\* Two threads worked on two different writer gids, one added and removed
\* its gid, the other added its own, and all calls have returned.
C1_Witness ==
  /\ \A t \in Threads : pc[t] = "idle"
  /\ toucher[<<"writers", E1>>] = "t1" /\ last_call[<<"writers", E1>>] = "remove"
  /\ toucher[<<"writers", E2>>] = "t2" /\ last_call[<<"writers", E2>>] = "add"
  /\ DOMAIN data_writers_ = {E2}

\* C2: an add returns true iff the gid was absent just before it and leaves
\* it present; a remove returns true iff the gid was present just before it
\* and leaves it absent; so the adds that returned true and the removes that
\* returned true alternate: their difference is 1 while the gid is present
\* and 0 while it is absent.
C2_AddRemoveReturnValues ==
  [][\A t \in Threads :
       ExecutesEndpoint(t) =>
         LET op == cur[t].op
             k == <<MapOf(op), op.gid>>
             before == op.gid \in DOMAIN MapFor(MapOf(op))
             after == op.gid \in DOMAIN MapFor(MapOf(op))'
         IN /\ cur'[t].ret = (IF IsAdd(op) THEN ~before ELSE before)
            /\ after = IsAdd(op)
            /\ net_added'[k] = (IF after THEN 1 ELSE 0)
            /\ net_added[k] = (IF before THEN 1 ELSE 0)]_vars

\* A remove_writer has just returned true (so an add of that gid returned
\* true before it).
C2_Witness ==
  /\ pc["t1"] = "unlock"
  /\ cur["t1"].op.name = "remove_writer"
  /\ cur["t1"].ret = TRUE
  /\ net_added[<<"writers", cur["t1"].op.gid>>] = 0

\* C3: an add of a gid that is already present, and a remove of a gid that
\* is absent, return false, leave the three maps (so the stored EntityInfo)
\* and the registered callback as they were, and do not invoke the callback.
C3_NoOpAddAndRemove ==
  [][\A t \in Threads :
       (/\ ExecutesEndpoint(t)
        /\ IsAdd(cur[t].op) = (cur[t].op.gid \in DOMAIN MapFor(MapOf(cur[t].op))))
       => /\ Maps' = Maps
          /\ on_change_callback_' = on_change_callback_
          /\ cur'[t].ret = FALSE
          /\ cur'[t].callback = FALSE
          /\ pc'[t] = "unlock"
          /\ invoked' = invoked]_vars

\* With a callback registered, add_writer was called for a present gid with
\* arguments that differ from the stored record, and has answered false.
C3_Witness ==
  /\ pc["t1"] = "unlock"
  /\ cur["t1"].op.name = "add_writer"
  /\ cur["t1"].ret = FALSE
  /\ on_change_callback_ # NoCallback
  /\ data_writers_[cur["t1"].op.gid] # cur["t1"].op.info
  /\ invoked = [cb \in Callbacks |-> 0]

\* Thread t runs the body of its operation in this step.
Executes(t) == pc[t] = "locked" /\ pc'[t] # "locked"

IsMutation(op) ==
  ~IsQuery(op) /\ op.name \notin {"set_on_change_callback", "clear_on_change_callback"}

\* C4: with a callback registered, a mutation that changes the maps goes on
\* to invoke the callback; the invocation happens once, on the same thread,
\* with the change applied and the mutex held, before the operation returns.
C4_CallbackOnEveryChange ==
  [][\A t \in Threads :
       /\ (Executes(t) /\ IsMutation(cur[t].op) /\ on_change_callback_ # NoCallback
             /\ Maps' # Maps)
          => (pc'[t] = "notify" /\ cur'[t].callback /\ cur'[t].cb = on_change_callback_)
       /\ (pc[t] = "notify" /\ pc'[t] # "notify")
          => (pc'[t] = "in_callback" /\ TotalInvoked' = TotalInvoked + 1)
       /\ pc'[t] \in {"notify", "in_callback"}
          => (mutex_' = t /\ Maps' = cur'[t].post /\ cur'[t].callback)
       /\ pc'[t] = "notify" => pc[t] \in {"locked", "notify"}
       /\ (pc[t] = "notify" \/ invoked' = invoked
             \/ \E u \in Threads : pc[u] = "notify" /\ pc'[u] = "in_callback")
       /\ (pc[t] = "unlock" /\ pc'[t] # "unlock" /\ cur[t].callback) => cur[t].k > 0]_vars

\* A dissociate_writer that removed a gid from a node's list is inside the
\* callback: the maps differ from what they were when the mutex was taken.
C4_Witness ==
  /\ pc["t1"] = "in_callback"
  /\ cur["t1"].op.name = "dissociate_writer"
  /\ mutex_ = "t1"
  /\ cur["t1"].post # committed
  /\ Maps = cur["t1"].post

\* C5: with a callback registered, a mutation invokes the callback exactly
\* if it changed the maps, so that invocations and state-changing operations
\* are equal in number.
C5_CallbackIffStateChanged ==
  [][\A t \in Threads :
       (Executes(t) /\ IsMutation(cur[t].op) /\ on_change_callback_ # NoCallback)
       => (cur'[t].callback <=> (Maps' # Maps))]_vars

\* C6: with a callback registered, add_participant and remove_participant
\* invoke the callback exactly if they modified the participants map.
C6_ParticipantCallbackIffModified ==
  [][\A t \in Threads :
       (/\ Executes(t)
        /\ cur[t].op.name \in {"add_participant", "remove_participant"}
        /\ on_change_callback_ # NoCallback)
       => (cur'[t].callback <=> (participants_' # participants_))]_vars

\* The positions at which a thread owns the mutex, and those inside an operation.
HoldsMutex(t) ==
  pc[t] \in {"locked", "notify", "in_callback", "cb_reenter", "cb_nested", "unlock"}
InsideOperation(t) == HoldsMutex(t) \/ pc[t] = "populate"

\* C7 as stated: a thread that is executing any part of an operation owns
\* the mutex, so at most one thread is inside an operation at any time.
C7_MutexHeldForWholeOperation ==
  /\ \A t \in Threads : InsideOperation(t) => mutex_ = t
  /\ Cardinality({t \in Threads : InsideOperation(t)}) <= 1

\* C7 as amended: every access to the cache's state is made by the owner of
\* the mutex (get_names_and_types owns it only while it scans the maps, and
\* builds its output after releasing it); at most one thread owns it; a
\* thread that takes it finds the maps as the last completed operation left
\* them, and a query's result is the one this state gives.
C7_AccessesAreExclusive ==
  /\ \A t \in Threads : HoldsMutex(t) <=> mutex_ = t
  /\ \A t \in Threads : pc[t] = "locked" => Maps = committed
  /\ \A t \in Threads :
       (pc[t] = "unlock" /\ IsQuery(cur[t].op))
       => cur[t].ret = Run(Cache(committed.w, committed.r, committed.p,
                                 on_change_callback_), cur[t].op).ret

\* One thread is building the output of get_names_and_types from a non-empty
\* copy while the other, owning the mutex, has changed the maps.
C7_Witness ==
  /\ pc["t1"] = "populate"
  /\ DOMAIN cur["t1"].ret # {}
  /\ pc["t2"] = "unlock"
  /\ mutex_ = "t2"
  /\ Maps # committed

CallbackRunning(t) == pc[t] \in {"in_callback", "cb_reenter"}

\* C8 as stated: while a callback runs its thread owns the mutex, a callback
\* that calls into the cache never gets the mutex, and no other thread starts
\* or completes an operation (at most it calls one and blocks).
C8_NothingElseStartsOrCompletes ==
  [][\A t \in Threads :
       CallbackRunning(t) =>
         /\ mutex_ = t
         /\ pc[t] = "cb_reenter" => (pc'[t] = "cb_reenter" /\ mutex_' = t)
         /\ \A u \in Threads \ {t} :
              pc'[u] = pc[u] \/ (pc[u] = "idle" /\ pc'[u] = "waiting")]_vars

\* C8 as amended: while a callback runs its thread owns the mutex; an
\* operation the callback calls on the same cache either returns before it
\* locks anything (get_names_and_types refusing its arguments) or never
\* gets the mutex and never takes effect (the thread blocks for ever, or the
\* lock attempt fails and the error ends the callback and the outer
\* operation); no other thread gets the mutex, so none reads or changes the
\* cache's state: another thread can call an operation and block, have
\* get_names_and_types refuse its arguments and return, or finish the
\* unlocked tail of get_names_and_types.
C8_CallbackHoldsMutex ==
  [][\A t \in Threads :
       CallbackRunning(t) =>
         /\ mutex_ = t
         /\ mutex_' = t
         /\ pc[t] = "cb_reenter" =>
              \/ pc'[t] = "cb_reenter"
              \/ pc'[t] = "unlock" /\ cur'[t].error = "system_error"
         /\ cur'[t].nested # cur[t].nested =>
              /\ pc[t] = "in_callback" /\ pc'[t] = "in_callback"
              /\ cur'[t].nested = "RMW_RET_INVALID_ARGUMENT"
         /\ \A u \in Threads \ {t} :
              /\ pc[u] \in {"idle", "waiting", "populate", "returned"}
              /\ pc'[u] \in {"idle", "waiting", "populate", "returned"}
              /\ (pc'[u] = "returned" /\ pc[u] # "returned") =>
                   /\ pc[u] = "idle"
                   /\ cur'[u].op.name = "get_names_and_types"
                   /\ ~cur'[u].op.valid_arguments
                   /\ cur'[u].ret = "RMW_RET_INVALID_ARGUMENT"
              /\ (pc'[u] = "waiting" /\ pc[u] # "waiting") =>
                   pc[u] = "idle" /\ ~returns_before_lock(cur'[u].op)
         /\ Maps' = Maps
         /\ on_change_callback_' = on_change_callback_]_vars

\* A callback has had get_names_and_types refuse its arguments, has then
\* called clear_on_change_callback and is blocked on the mutex its own
\* thread owns, while the other thread holds the refusal that
\* get_names_and_types returned to it without blocking.
C8_Witness ==
  /\ pc["t1"] = "cb_reenter"
  /\ mutex_ = "t1"
  /\ cur["t1"].nested = "RMW_RET_INVALID_ARGUMENT"
  /\ pc["t2"] = "returned"
  /\ cur["t2"].ret = "RMW_RET_INVALID_ARGUMENT"

\* C9: the k-th invocation of the callback is made by the k-th mutation that
\* triggers it, and while it runs the maps are as that mutation left them and
\* no later mutation has been applied.
C9_CallbacksInMutationOrder ==
  /\ \A t \in Threads :
       pc[t] = "notify" =>
         (cur[t].ticket = applied /\ TotalInvoked = applied - 1 /\ Maps = cur[t].post)
  /\ \A t \in Threads :
       CallbackRunning(t) =>
         (/\ cur[t].k = cur[t].ticket
          /\ cur[t].k = TotalInvoked
          /\ cur[t].ticket = applied
          /\ Maps = cur[t].post)

\* The second invocation of the callback is running in thread t2 after a
\* mutation by thread t1 was notified first.
C9_Witness ==
  /\ pc["t2"] = "in_callback"
  /\ cur["t2"].k = 2
  /\ toucher[<<"writers", E1>>] = "t1"
  /\ cur["t2"].op.name = "update_participant_entities"

\* C10: set_on_change_callback and clear_on_change_callback invoke no
\* callback and leave the three maps alone; every invocation is one of the
\* callback named by the last set call, and there is none after a clear.
C10_OneCallback ==
  [][\A t \in Threads :
       /\ (Executes(t)
             /\ cur[t].op.name \in {"set_on_change_callback", "clear_on_change_callback"})
          => (Maps' = Maps /\ invoked' = invoked /\ pc'[t] = "unlock"
                /\ cur'[t].callback = FALSE)
       /\ (pc[t] = "notify" /\ pc'[t] = "in_callback")
          => (last_set # NoCallback
                /\ invoked' = [invoked EXCEPT ![last_set] = @ + 1])
       /\ last_set = NoCallback => invoked' = invoked
       /\ (Executes(t) /\ IsMutation(cur[t].op) /\ Maps' # Maps)
          => (cur'[t].callback <=> (last_set # NoCallback))]_vars

\* After set(f) then set(g), a mutation is inside callback g and f was never
\* invoked.
C10_Witness ==
  /\ pc["t1"] = "in_callback"
  /\ cur["t1"].cb = "g"
  /\ last_set = "g"
  /\ invoked = [cb \in Callbacks |-> IF cb = "g" THEN 1 ELSE 0]
  /\ ncalls = 3

\* The entries of the participants map other than G's are the same before
\* and after the step.
OtherParticipantsUnchanged(G) ==
  /\ DOMAIN participants_' \ {G} = DOMAIN participants_ \ {G}
  /\ \A q \in DOMAIN participants_ \ {G} : participants_'[q] = participants_[q]

\* C11: update_participant_entities(msg) leaves msg.gid with an entry whose
\* node_entities_info_seq is the message's sequence, whatever was stored
\* before; an entry it creates has the empty enclave; applying the same
\* message again changes nothing.
C11_UpdateReplaces ==
  [][\A t \in Threads :
       (Executes(t) /\ cur[t].op.name = "update_participant_entities") =>
         LET G == cur[t].op.pgid
         IN /\ G \in DOMAIN participants_'
            /\ participants_'[G].node_entities_info_seq = cur[t].op.seq
            /\ G \notin DOMAIN participants_ => participants_'[G].enclave = ""
            /\ MapsOf(Run(CacheNow', cur[t].op).cache) = Maps']_vars

\* A participant known with the nodes talker and listener (listener holding
\* a reader) has received a message naming only talker with a writer.
C11_Witness ==
  /\ pc["t1"] = "unlock"
  /\ cur["t1"].op.name = "update_participant_entities"
  /\ cur["t1"].op.seq = SeqT
  /\ cur["t1"].op.pgid \in DOMAIN committed.p
  /\ committed.p[cur["t1"].op.pgid].node_entities_info_seq = SeqTL
  /\ participants_[cur["t1"].op.pgid].node_entities_info_seq = SeqT

\* C12: update_participant_entities(msg) for a gid that has an entry keeps
\* that entry's enclave; the other participants' entries, the writers map
\* and the readers map are unchanged.
C12_UpdateKeepsEnclave ==
  [][\A t \in Threads :
       (Executes(t) /\ cur[t].op.name = "update_participant_entities") =>
         LET G == cur[t].op.pgid
         IN /\ G \in DOMAIN participants_ =>
                 participants_'[G].enclave = participants_[G].enclave
            /\ OtherParticipantsUnchanged(G)
            /\ data_writers_' = data_writers_
            /\ data_readers_' = data_readers_]_vars

\* A participant with enclave encA has received new nodes while a second
\* participant is known.
C12_Witness ==
  /\ pc["t1"] = "unlock"
  /\ cur["t1"].op.name = "update_participant_entities"
  /\ cur["t1"].op.pgid = P1
  /\ P1 \in DOMAIN committed.p
  /\ committed.p[P1].enclave = "encA"
  /\ participants_[P1].enclave = "encA"
  /\ participants_[P1].node_entities_info_seq # committed.p[P1].node_entities_info_seq
  /\ P2 \in DOMAIN participants_

\* C13: add_participant(gid, enclave) leaves gid with an entry holding the
\* enclave; the entry's nodes are the ones stored before, none if the entry
\* is new; the other entries are unchanged.
C13_AddParticipantKeepsNodes ==
  [][\A t \in Threads :
       (Executes(t) /\ cur[t].op.name = "add_participant") =>
         LET G == cur[t].op.pgid
         IN /\ G \in DOMAIN participants_'
            /\ participants_'[G].enclave = cur[t].op.enclave
            /\ participants_'[G].node_entities_info_seq =
                 IF G \in DOMAIN participants_
                 THEN participants_[G].node_entities_info_seq
                 ELSE <<>>
            /\ OtherParticipantsUnchanged(G)
            /\ data_writers_' = data_writers_
            /\ data_readers_' = data_readers_]_vars

\* A participant whose nodes were learned from a peer message is given
\* another enclave and still has these nodes.
C13_Witness ==
  /\ pc["t1"] = "unlock"
  /\ cur["t1"].op.name = "add_participant"
  /\ cur["t1"].op.pgid \in DOMAIN committed.p
  /\ committed.p[cur["t1"].op.pgid].node_entities_info_seq = SeqTL
  /\ committed.p[cur["t1"].op.pgid].enclave # cur["t1"].op.enclave
  /\ participants_[cur["t1"].op.pgid].node_entities_info_seq = SeqTL
  /\ participants_[cur["t1"].op.pgid].enclave = cur["t1"].op.enclave

IsLocalNodeCall(op) ==
  op.name \in {"add_node", "remove_node", "associate_writer", "dissociate_writer",
               "associate_reader", "dissociate_reader"}

\* A cache just constructed.
FreshCache == Cache(EmptyMap, EmptyMap, EmptyMap, NoCallback)

\* C15: the message returned by add_node, remove_node, associate_* and
\* dissociate_* names the participant and carries its node_entities_info_seq
\* as the call left it; update_participant_entities of that message on a
\* fresh cache gives the participant the same node_entities_info_seq.
C15_ReturnedMessageIsLiveState ==
  [][\A t \in Threads :
       (Executes(t) /\ IsLocalNodeCall(cur[t].op)) =>
         LET G == cur[t].op.pgid
             msg == cur'[t].ret
             fresh == update_participant_entities(FreshCache, msg).cache
         IN /\ convert_msg_to_gid(msg.gid) = G
            /\ msg.node_entities_info_seq = participants_'[G].node_entities_info_seq
            /\ DOMAIN fresh.participants_ = {G}
            /\ fresh.participants_[G].node_entities_info_seq =
                 participants_'[G].node_entities_info_seq]_vars

\* associate_writer has returned a message whose second node lists the writer.
C15_Witness ==
  /\ pc["t1"] = "unlock"
  /\ cur["t1"].op.name = "associate_writer"
  /\ Len(cur["t1"].ret.node_entities_info_seq) = 2
  /\ cur["t1"].ret.node_entities_info_seq[2].writer_gid_seq =
       <<convert_gid_to_msg(cur["t1"].op.gid)>>
  /\ cur["t1"].ret.node_entities_info_seq =
       participants_[cur["t1"].op.pgid].node_entities_info_seq

\* C18: no participant's node_entities_info_seq holds two entries with the
\* same node name and namespace.
C18_NodeNamesUnique ==
  \A p \in DOMAIN participants_ :
    LET seq == participants_[p].node_entities_info_seq
    IN \A i, j \in 1..Len(seq) :
         i # j => ~NodeMatches(seq[i], seq[j].node_name, seq[j].node_namespace)

\* The positions (participant, node, index) at which gid g occurs in the
\* writer (reader) lists of the nodes of the participants.
GidSeqOf(node_info, is_reader) ==
  IF is_reader THEN node_info.reader_gid_seq ELSE node_info.writer_gid_seq

Occurrences(g, is_reader) ==
  UNION {UNION {{<<p, i, k>> :
                   k \in {n \in 1..Len(GidSeqOf(participants_[p].node_entities_info_seq[i],
                                                is_reader)) :
                            GidSeqOf(participants_[p].node_entities_info_seq[i],
                                     is_reader)[n] = convert_gid_to_msg(g)}} :
                 i \in 1..Len(participants_[p].node_entities_info_seq)} :
         p \in DOMAIN participants_}

\* C19: a writer gid occurs at most once over the writer_gid_seq lists of all
\* nodes of all participants, and a reader gid at most once over the
\* reader_gid_seq lists.
C19_GidInAtMostOneList ==
  \A g \in EndpointGids :
    /\ Cardinality(Occurrences(g, FALSE)) <= 1
    /\ Cardinality(Occurrences(g, TRUE)) <= 1

\* The gids of the endpoints an info array reports.
ReportedGids(info_array) == {info_array[i].endpoint_gid : i \in 1..Len(info_array)}

\* C14: remove_participant(gid) answers whether gid had an entry, erases
\* that entry and nothing else; the writers and readers maps are unchanged,
\* so the counts per topic are the same and every endpoint of a topic, those
\* of the removed participant included, is still reported by
\* get_writers_info_by_topic / get_readers_info_by_topic.
C14_RemoveParticipantKeepsEndpoints ==
  [][\A t \in Threads :
       (Executes(t) /\ cur[t].op.name = "remove_participant") =>
         LET G == cur[t].op.pgid
         IN /\ cur'[t].ret = (G \in DOMAIN participants_)
            /\ G \notin DOMAIN participants_'
            /\ OtherParticipantsUnchanged(G)
            /\ data_writers_' = data_writers_
            /\ data_readers_' = data_readers_
            /\ \A tn \in Topics :
                 /\ get_writer_count(CacheNow', tn, TRUE).ret = get_writer_count(CacheNow, tn, TRUE).ret
                 /\ get_reader_count(CacheNow', tn, TRUE).ret = get_reader_count(CacheNow, tn, TRUE).ret
                 /\ ReportedGids(get_writers_info_by_topic(CacheNow', tn, "identity")
                                   .ret.info_array)
                      = {g \in DOMAIN data_writers_ : data_writers_[g].topic_name = tn}
                 /\ ReportedGids(get_readers_info_by_topic(CacheNow', tn, "identity")
                                   .ret.info_array)
                      = {g \in DOMAIN data_readers_ : data_readers_[g].topic_name = tn}]_vars

\* remove_participant has erased the entry of a participant that owns a
\* stored writer, and the writer is still counted.
C14_Witness ==
  /\ pc["t1"] = "unlock"
  /\ cur["t1"].op.name = "remove_participant"
  /\ cur["t1"].ret = TRUE
  /\ cur["t1"].op.pgid \notin DOMAIN participants_
  /\ \E g \in DOMAIN data_writers_ :
       /\ data_writers_[g].participant_gid = cur["t1"].op.pgid
       /\ get_writer_count(CacheNow, data_writers_[g].topic_name, TRUE).ret.count = 1

\* The nodes of participant G, by position, whose writer (reader) list holds g.
ListingNodes(G, g, is_reader) ==
  {n \in 1..Len(participants_[G].node_entities_info_seq) :
     \E k \in 1..Len(GidSeqOf(participants_[G].node_entities_info_seq[n], is_reader)) :
       GidSeqOf(participants_[G].node_entities_info_seq[n], is_reader)[k]
         = convert_gid_to_msg(g)}

\* Every element of an info array names its node by the three-way case on
\* the participant gid recorded for the endpoint.
NodeTagsCorrect(info_array, is_reader) ==
  \A i \in 1..Len(info_array) :
    LET g == info_array[i].endpoint_gid
        G == (IF is_reader THEN data_readers_ ELSE data_writers_)[g].participant_gid
        tag == <<info_array[i].node_name, info_array[i].node_namespace>>
    IN IF G \notin DOMAIN participants_
       THEN tag = <<"_CREATED_BY_BARE_DDS_APP_", "_CREATED_BY_BARE_DDS_APP_">>
       ELSE IF ListingNodes(G, g, is_reader) = {}
       THEN tag = <<"_NODE_NAME_UNKNOWN_", "_NODE_NAMESPACE_UNKNOWN_">>
       ELSE LET first == CHOOSE n \in ListingNodes(G, g, is_reader) :
                           \A o \in ListingNodes(G, g, is_reader) : n <= o
            IN tag = <<participants_[G].node_entities_info_seq[first].node_name,
                       participants_[G].node_entities_info_seq[first].node_namespace>>

\* C16: every endpoint that get_writers_info_by_topic (get_readers_info_by_topic)
\* reports carries "_CREATED_BY_BARE_DDS_APP_" twice if its participant is
\* not in the participants map, "_NODE_NAME_UNKNOWN_" and
\* "_NODE_NAMESPACE_UNKNOWN_" if the participant is there and none of its
\* nodes lists the gid as writer (reader), and otherwise the name and
\* namespace of the first node of that participant that lists it.
C16_ReverseLookupThreeWay ==
  /\ \A tn \in Topics :
       /\ NodeTagsCorrect(get_writers_info_by_topic(CacheNow, tn, "identity")
                            .ret.info_array, FALSE)
       /\ NodeTagsCorrect(get_readers_info_by_topic(CacheNow, tn, "identity")
                            .ret.info_array, TRUE)
  /\ \A t \in Threads :
       (pc[t] = "unlock"
          /\ cur[t].op.name \in {"get_writers_info_by_topic", "get_readers_info_by_topic"})
       => /\ cur[t].ret.ret = "RMW_RET_OK"
          /\ NodeTagsCorrect(cur[t].ret.info_array,
                             cur[t].op.name = "get_readers_info_by_topic")
          /\ ReportedGids(cur[t].ret.info_array) =
               {g \in DOMAIN MapFor(IF cur[t].op.name = "get_readers_info_by_topic"
                                    THEN "readers" ELSE "writers") :
                  MapFor(IF cur[t].op.name = "get_readers_info_by_topic"
                         THEN "readers" ELSE "writers")[g].topic_name
                    = cur[t].op.topic_name}

\* get_writers_info_by_topic has reported a writer that two nodes of its
\* participant list, under the name of the first of them.
C16_Witness ==
  /\ pc["t1"] = "unlock"
  /\ cur["t1"].op.name = "get_writers_info_by_topic"
  /\ Len(cur["t1"].ret.info_array) = 1
  /\ cur["t1"].ret.info_array[1].endpoint_gid = E1
  /\ P1 \in DOMAIN participants_
  /\ data_writers_[E1].participant_gid = P1
  /\ ListingNodes(P1, E1, FALSE) = {1, 2}
  /\ cur["t1"].ret.info_array[1].node_name = "talker"
  /\ cur["t1"].ret.info_array[1].node_namespace = "/"

\* The (demangled topic, demangled type) pairs of the stored readers and
\* writers whose demangled topic is not empty.
TopicTypePairs(demangle_topic, demangle_type) ==
  {<<Demangle(demangle_topic, e.topic_name), Demangle(demangle_type, e.topic_type)>> :
     e \in {x \in {data_readers_[g] : g \in DOMAIN data_readers_}
                    \cup {data_writers_[g] : g \in DOMAIN data_writers_} :
              Demangle(demangle_topic, x.topic_name) # ""}}

\* A names-and-types result holds exactly these pairs.
IsNamesAndTypesOf(topics, pairs) ==
  /\ DOMAIN topics = {p[1] : p \in pairs}
  /\ \A n \in DOMAIN topics : topics[n] = {p[2] : p \in {q \in pairs : q[1] = n}}

\* C20: get_names_and_types maps each non-empty demangled topic of a stored
\* reader or writer to the set of the demangled types used with it, and maps
\* nothing else.
C20_NamesAndTypesExact ==
  /\ \A dt \in {"ros", "identity"} : \A dty \in {"ros_type", "identity"} :
       IsNamesAndTypesOf(get_names_and_types(CacheNow, dt, dty, TRUE).ret,
                         TopicTypePairs(dt, dty))
  /\ \A t \in Threads :
       (pc[t] = "unlock" /\ cur[t].op.name = "get_names_and_types")
       => IsNamesAndTypesOf(cur[t].ret,
                            TopicTypePairs(cur[t].op.demangle_topic,
                                           cur[t].op.demangle_type))

\* get_names_and_types has answered one topic with the two types that a
\* writer and a reader use with it.
C20_Witness ==
  /\ pc["t1"] = "unlock"
  /\ cur["t1"].op.name = "get_names_and_types"
  /\ cur["t1"].op.demangle_topic = "ros"
  /\ DOMAIN data_writers_ # {}
  /\ DOMAIN data_readers_ # {}
  /\ cur["t1"].ret = [n \in {"/chatter"} |-> {"String", "Int32"}]

\* The three arrivals, read off the cache: the writer is stored, the
\* participant has its enclave, the participant has the message's node list.
WriterApplied == E1 \in DOMAIN data_writers_
ParticipantApplied == P1 \in DOMAIN participants_ /\ participants_[P1].enclave = "encA"
MessageApplied ==
  P1 \in DOMAIN participants_ /\ participants_[P1].node_entities_info_seq = SeqT

\* This step runs the body of op.
Arrives(op) == Executes("t1") /\ cur["t1"].op = op

\* What get_writers_info_by_topic answers for the writer's topic.
WritersReport ==
  get_writers_info_by_topic(CacheNow, InfoA.topic_name, "identity").ret.info_array

ReportedAs(info_array, name, namespace) ==
  /\ Len(info_array) = 1
  /\ info_array[1].endpoint_gid = E1
  /\ info_array[1].node_name = name
  /\ info_array[1].node_namespace = namespace

\* C17: add_writer(W, topic, participant G), add_participant(G, e) and
\* update_participant_entities({G, [N lists W]}) are each accepted whenever
\* they arrive and stay applied from their first arrival on.  Once the
\* writer is stored, get_writers_info_by_topic(topic) reports it with N's
\* name and namespace if all three have been applied, with
\* "_CREATED_BY_BARE_DDS_APP_" while G is not in the participants map, and
\* with "_NODE_NAME_UNKNOWN_" / "_NODE_NAMESPACE_UNKNOWN_" while G is in the
\* map and N's message has not been applied.
C17_AnyArrivalOrder ==
  [][/\ WriterApplied' = (WriterApplied \/ Arrives(WriterArrives))
     /\ ParticipantApplied' = (ParticipantApplied \/ Arrives(ParticipantArrives))
     /\ MessageApplied' = (MessageApplied \/ Arrives(MessageArrives))
     /\ Executes("t1") =>
          /\ cur'["t1"].error = "none"
          /\ Arrives(WriterArrives) => cur'["t1"].ret = ~WriterApplied
          /\ Arrives(ParticipantArrives) \/ Arrives(MessageArrives)
               => cur'["t1"].ret = "void"
          /\ Arrives(AskWriters) =>
               /\ cur'["t1"].ret.ret = "RMW_RET_OK"
               /\ cur'["t1"].ret.info_array = WritersReport'
     /\ ~WriterApplied' => WritersReport' = <<>>
     /\ WriterApplied' =>
          /\ (ParticipantApplied' /\ MessageApplied')
               => ReportedAs(WritersReport', SeqT[1].node_name, SeqT[1].node_namespace)
          /\ P1 \notin DOMAIN participants_'
               => ReportedAs(WritersReport', "_CREATED_BY_BARE_DDS_APP_",
                             "_CREATED_BY_BARE_DDS_APP_")
          /\ (P1 \in DOMAIN participants_' /\ ~MessageApplied')
               => ReportedAs(WritersReport', "_NODE_NAME_UNKNOWN_",
                             "_NODE_NAMESPACE_UNKNOWN_")]_vars

\* add_participant has arrived last, after the writer and the message, and
\* the writer is reported under the node's name.
C17_Witness ==
  /\ pc["t1"] = "unlock"
  /\ cur["t1"].op = ParticipantArrives
  /\ E1 \in DOMAIN committed.w
  /\ P1 \in DOMAIN committed.p
  /\ committed.p[P1].node_entities_info_seq = SeqT
  /\ committed.p[P1].enclave # "encA"
  /\ WriterApplied /\ ParticipantApplied /\ MessageApplied
  /\ ReportedAs(WritersReport, "talker", "/")

\* Some participant has a node with this name and namespace.
NodeExists(node) ==
  \E p \in DOMAIN participants_ :
    \E i \in 1..Len(participants_[p].node_entities_info_seq) :
      /\ participants_[p].node_entities_info_seq[i].node_name = node.name
      /\ participants_[p].node_entities_info_seq[i].node_namespace = node.namespace

\* C21: get_writer_names_and_types_by_node and
\* get_reader_names_and_types_by_node, asked for a name and namespace that no
\* node of any participant has, return RMW_RET_NODE_NAME_NON_EXISTENT, leave
\* topic_names_and_types zero-initialized, allocate nothing, leave the three
\* maps and the registered callback as they are and do not invoke the
\* callback.
C21_UnknownNodeByNode ==
  [][\A t \in Threads :
       (Executes(t) /\ cur[t].op.name \in ByNodeQueries /\ ~NodeExists(cur[t].op.node))
       => /\ cur'[t].ret = [ret |-> "RMW_RET_NODE_NAME_NON_EXISTENT",
                            topic_names_and_types |->
                              [names |-> [size |-> 0, data |-> NULL], types |-> NULL],
                            heap |-> {}]
          /\ UNCHANGED <<data_writers_, data_readers_, participants_,
                         on_change_callback_, invoked, applied>>
          /\ ~cur'[t].callback
          /\ pc'[t] = "unlock"]_vars

\* With the callback registered and a node "listener" in namespace "/ns", the
\* writers of "listener" in namespace "/" were asked for.
C21_Witness ==
  /\ pc["t1"] = "unlock"
  /\ cur["t1"].op.name = "get_writer_names_and_types_by_node"
  /\ cur["t1"].op.node = NodeX
  /\ NodeExists(NodeL)
  /\ on_change_callback_ = "f"
  /\ cur["t1"].ret.ret = "RMW_RET_NODE_NAME_NON_EXISTENT"

\* The mapping that a filled rmw_names_and_types_t holds, and whether it
\* holds each name once.
MappingOf(names_and_types) ==
  [n \in {names_and_types.names.data.elems[i].str : i \in 1..names_and_types.names.size} |->
     UNION {{names_and_types.types.elems[i].data.elems[k].str :
               k \in 1..names_and_types.types.elems[i].size} :
              i \in {j \in 1..names_and_types.names.size :
                       names_and_types.names.data.elems[j].str = n}}]

HoldsMapping(names_and_types, mapping) ==
  IF DOMAIN mapping = {}
  THEN names_and_types = [names |-> [size |-> 0, data |-> NULL], types |-> NULL]
  ELSE /\ names_and_types.names.size = Cardinality(DOMAIN mapping)
       /\ Len(names_and_types.types.elems) = names_and_types.names.size
       /\ \A i \in 1..names_and_types.names.size :
            /\ names_and_types.names.data.elems[i] # NULL
            /\ names_and_types.types.elems[i].data # NULL
            /\ \A k \in 1..names_and_types.types.elems[i].size :
                 names_and_types.types.elems[i].data.elems[k] # NULL
            /\ names_and_types.types.elems[i].size
                 = Cardinality(mapping[names_and_types.names.data.elems[i].str])
       /\ MappingOf(names_and_types) = mapping

\* The node that a by-node query answers for: of the participants that have
\* a node with this name and namespace the one with the least gid, and of its
\* matching nodes the one listed first.
AnsweringNode(node) ==
  LET has(p) == {i \in 1..Len(participants_[p].node_entities_info_seq) :
                   /\ participants_[p].node_entities_info_seq[i].node_name = node.name
                   /\ participants_[p].node_entities_info_seq[i].node_namespace
                        = node.namespace}
      p == CHOOSE q \in DOMAIN participants_ :
             /\ has(q) # {}
             /\ \A o \in DOMAIN participants_ :
                  has(o) # {} => (o = q \/ Compare_rmw_gid_t(q, o))
      i == CHOOSE j \in has(p) : \A o \in has(p) : j <= o
  IN participants_[p].node_entities_info_seq[i]

\* The topic-to-types mapping of the endpoints that the node lists and the
\* endpoint map holds, without those whose demangled topic is empty.
NodeMapping(node, is_reader, demangle_topic, demangle_type) ==
  LET entities == IF is_reader THEN data_readers_ ELSE data_writers_
      listed == GidSeqOf(AnsweringNode(node), is_reader)
      held == {convert_msg_to_gid(listed[i]) : i \in 1..Len(listed)} \cap DOMAIN entities
      pairs == {<<Demangle(demangle_topic, entities[g].topic_name),
                  Demangle(demangle_type, entities[g].topic_type)>> : g \in held}
      kept == {pr \in pairs : pr[1] # ""}
  IN [n \in {pr[1] : pr \in kept} |-> {pr[2] : pr \in {q \in kept : q[1] = n}}]

\* C22: when the node exists, get_writer_names_and_types_by_node (resp.
\* reader) returns RMW_RET_OK and topic_names_and_types holds exactly the
\* topic-to-types mapping of the endpoints whose gid the node lists in
\* writer_gid_seq (resp. reader_gid_seq) and the writers (resp. readers) map
\* holds, with a non-empty demangled topic; listed gids that the map does not
\* hold are skipped, and nothing else is included.
C22_ByNodeMapping ==
  \A t \in Threads :
    (pc[t] = "unlock" /\ cur[t].op.name \in ByNodeQueries /\ NodeExists(cur[t].op.node))
    => /\ cur[t].ret.ret = "RMW_RET_OK"
       /\ HoldsMapping(cur[t].ret.topic_names_and_types,
                       NodeMapping(cur[t].op.node,
                                   cur[t].op.name = "get_reader_names_and_types_by_node",
                                   cur[t].op.demangle_topic, cur[t].op.demangle_type))

\* "talker" lists the writers E1 and E2 and the writers map holds E1 and
\* not E2: the answer is the topic of E1 with the type of E1.
C22_Witness ==
  /\ pc["t1"] = "unlock"
  /\ cur["t1"].op.name = "get_writer_names_and_types_by_node"
  /\ cur["t1"].op.node = NodeT
  /\ NodeExists(NodeT)
  /\ GidSeqOf(AnsweringNode(NodeT), FALSE) = SeqTwo[1].writer_gid_seq
  /\ DOMAIN data_writers_ = {E1}
  /\ cur["t1"].ret.ret = "RMW_RET_OK"
  /\ MappingOf(cur["t1"].ret.topic_names_and_types)
       = [n \in {Demangle("ros", data_writers_[E1].topic_name)} |->
            {Demangle("ros_type", data_writers_[E1].topic_type)}]

\* The nodes of the cache: participant and position in its node list.
AllNodes ==
  UNION {{<<p, i>> : i \in 1..Len(participants_[p].node_entities_info_seq)} :
           p \in DOMAIN participants_}

\* The position of a node in the output of get_node_names: after the nodes
\* of the participants with a smaller gid and after the nodes listed before
\* it.
PositionOf(x) ==
  Cardinality({y \in AllNodes : Compare_rmw_gid_t(y[1], x[1])}) + x[2]

\* A string array holds size copied strings.
IsFilled(string_array, size) ==
  /\ string_array.size = size
  /\ string_array.data # NULL
  /\ Len(string_array.data.elems) = size
  /\ \A j \in 1..size : string_array.data.elems[j] # NULL

\* The result of a get_node_names call is the node list of the cache.
IsNodeList(ret, has_enclaves) ==
  /\ ret.ret = "RMW_RET_OK"
  /\ IsFilled(ret.node_names, Cardinality(AllNodes))
  /\ IsFilled(ret.node_namespaces, Cardinality(AllNodes))
  /\ IF has_enclaves THEN IsFilled(ret.enclaves, Cardinality(AllNodes))
     ELSE ret.enclaves = [size |-> 0, data |-> NULL]
  /\ \A x \in AllNodes :
       LET node_info == participants_[x[1]].node_entities_info_seq[x[2]]
       IN /\ ret.node_names.data.elems[PositionOf(x)].str = node_info.node_name
          /\ ret.node_namespaces.data.elems[PositionOf(x)].str = node_info.node_namespace
          /\ has_enclaves =>
               ret.enclaves.data.elems[PositionOf(x)].str = participants_[x[1]].enclave

\* C23: get_number_of_nodes returns the sum of the lengths of the
\* participants' node lists; a successful get_node_names returns arrays of
\* that length in which entry j of names, namespaces and (if asked for)
\* enclaves is the name, the namespace and the participant's enclave of the
\* j-th node, the nodes taken by participant gid and then by position in the
\* participant's list.
C23_NodeNamesParallel ==
  /\ get_number_of_nodes(CacheNow).ret = Cardinality(AllNodes)
  /\ \A e \in BOOLEAN : IsNodeList(get_node_names(CacheNow, e, 0).ret, e)
  /\ \A t \in Threads :
       /\ (pc[t] = "unlock" /\ cur[t].op.name = "get_number_of_nodes")
            => cur[t].ret = Cardinality(AllNodes)
       /\ (pc[t] = "unlock" /\ cur[t].op.name = "get_node_names")
            => IsNodeList(cur[t].ret, cur[t].op.has_enclaves)

\* get_node_names has listed the two nodes of the participant with the
\* smaller gid before the node of the other participant.
C23_Witness ==
  /\ pc["t1"] = "unlock"
  /\ cur["t1"].op.name = "get_node_names"
  /\ cur["t1"].op.has_enclaves
  /\ DOMAIN participants_ = {P1, P2}
  /\ Len(participants_[P1].node_entities_info_seq) = 2
  /\ Len(participants_[P2].node_entities_info_seq) = 1
  /\ [j \in 1..3 |-> cur["t1"].ret.node_names.data.elems[j].str]
       = <<"talker", "listener", "talker">>
  /\ [j \in 1..3 |-> cur["t1"].ret.node_namespaces.data.elems[j].str]
       = <<"/", "/ns", "/">>
  /\ cur["t1"].ret.enclaves.size = 3

\* The queries that allocate their output while they hold the mutex.
AllocatesLocked(op) ==
  op.name \in ByNodeQueries \cup {"get_node_names", "get_writers_info_by_topic",
                                  "get_readers_info_by_topic"}

\* The output structures of a result point to no block.
HoldsNoAllocation(ret) ==
  /\ "topic_names_and_types" \in DOMAIN ret =>
       /\ ret.topic_names_and_types.names.data = NULL
       /\ ret.topic_names_and_types.types = NULL
  /\ "node_names" \in DOMAIN ret =>
       /\ ret.node_names.data = NULL
       /\ ret.node_namespaces.data = NULL
       /\ ret.enclaves.data = NULL
  /\ "endpoints_info" \in DOMAIN ret => ret.endpoints_info.info_array = NULL

\* An allocating query ends in one of two ways.  It fails (with
\* RMW_RET_BAD_ALLOC, or because the node is unknown): no block is left
\* allocated and the output points to none.  Or it succeeds, and then the
\* failing request was never made (or asked for zero bytes: get_node_names
\* of a cache without nodes).
CleanOutcome(op, ret) ==
  /\ ret.ret \in {"RMW_RET_OK", "RMW_RET_BAD_ALLOC", "RMW_RET_NODE_NAME_NON_EXISTENT"}
  /\ ret.ret = "RMW_RET_NODE_NAME_NON_EXISTENT" =>
       op.name \in ByNodeQueries /\ ~NodeExists(op.node)
  /\ ret.ret # "RMW_RET_OK" => ret.heap = {} /\ HoldsNoAllocation(ret)
  /\ ret.ret = "RMW_RET_OK" =>
       \/ op.fail_at = 0
       \/ \A r \in ret.heap : r < op.fail_at
       \/ op.name = "get_node_names" /\ ret.node_names.size = 0

\* C24: when an allocation fails while get_node_names, get_names_and_types,
\* get_writer/reader_names_and_types_by_node or get_writers/readers_info_by_topic
\* fills its output, the operation returns a failure status, everything it
\* allocated has been deallocated and the output structures hold no
\* allocation, the three maps and the callback are unchanged and the
\* callback is not invoked.
C24_AllocationFailureLeavesNothing ==
  [][\A t \in Threads :
       /\ (Executes(t) /\ AllocatesLocked(cur[t].op)) =>
            /\ CleanOutcome(cur[t].op, cur'[t].ret)
            /\ ~cur'[t].callback /\ pc'[t] = "unlock"
            /\ UNCHANGED <<data_writers_, data_readers_, participants_,
                           on_change_callback_, invoked, applied>>
       /\ (pc[t] = "populate" /\ pc'[t] # "populate") =>
            /\ CleanOutcome(cur[t].op,
                            populate_rmw_names_and_types(cur[t].ret, cur[t].op.fail_at))
            /\ ~cur[t].callback
            /\ UNCHANGED <<data_writers_, data_readers_, participants_,
                           on_change_callback_, invoked, applied>>]_vars

\* With the callback registered and one node in the cache, get_node_names
\* failed at its fifth request (the copy of the node's namespace), after the
\* three arrays and the copy of the node's name were allocated.
C24_Witness ==
  /\ pc["t1"] = "unlock"
  /\ cur["t1"].op.name = "get_node_names"
  /\ cur["t1"].op.has_enclaves
  /\ cur["t1"].op.fail_at = 5
  /\ on_change_callback_ = "f"
  /\ NodeExists(NodeT)
  /\ cur["t1"].ret.ret = "RMW_RET_BAD_ALLOC"
  /\ cur["t1"].ret.heap = {}

(***************************************************************************)
(* QoS compatibility.                                                      *)
(***************************************************************************)
QosCalled == cur["t1"].op
QosReturned == cur["t1"].ret

\* qos_profile_check_compatible has returned and has written *compatibility.
Checked ==
  /\ QosCalled.name = "qos_profile_check_compatible"
  /\ QosReturned.ret # "RMW_RET_INVALID_ARGUMENT"

Digits(d) == <<d.sec[1], d.sec[2], d.nsec[1], d.nsec[2]>>
\* Duration a is shorter than b: seconds first, then nanoseconds.
Shorter(a, b) == LexLess(Digits(a), Digits(b))
IsDefaultDuration(d) == Digits(d) = <<0, 0, 0, 0>>

\* The numbers of the rows of the table of errors that match the pair.
ErrorRowsMatching(p, s) ==
  {i \in 1..7 :
     CASE i = 1 -> p.reliability = "BEST_EFFORT" /\ s.reliability = "RELIABLE"
       [] i = 2 -> p.durability = "VOLATILE" /\ s.durability = "TRANSIENT_LOCAL"
       [] i = 3 -> IsDefaultDuration(p.deadline) /\ ~IsDefaultDuration(s.deadline)
       [] i = 4 -> /\ ~IsDefaultDuration(p.deadline) /\ ~IsDefaultDuration(s.deadline)
                   /\ Shorter(s.deadline, p.deadline)
       [] i = 5 -> p.liveliness = "AUTOMATIC" /\ s.liveliness = "MANUAL_BY_TOPIC"
       [] i = 6 -> /\ IsDefaultDuration(p.liveliness_lease_duration)
                   /\ ~IsDefaultDuration(s.liveliness_lease_duration)
       [] i = 7 -> /\ ~IsDefaultDuration(p.liveliness_lease_duration)
                   /\ ~IsDefaultDuration(s.liveliness_lease_duration)
                   /\ Shorter(s.liveliness_lease_duration, p.liveliness_lease_duration)}

Unresolved(policy) == policy = "SYSTEM_DEFAULT" \/ policy = "UNKNOWN"

\* For one policy an unresolved side decides whether the pair matches:
\* strict is the value a subscription insists on, weak the value a
\* publisher may fall short with.
DependsOnUnresolved(pub, sub, strict, weak) ==
  \/ Unresolved(pub) /\ Unresolved(sub)
  \/ Unresolved(pub) /\ sub = strict
  \/ pub = weak /\ Unresolved(sub)

WarningCase(p, s) ==
  \/ DependsOnUnresolved(p.reliability, s.reliability, "RELIABLE", "BEST_EFFORT")
  \/ DependsOnUnresolved(p.durability, s.durability, "TRANSIENT_LOCAL", "VOLATILE")
  \/ DependsOnUnresolved(p.liveliness, s.liveliness, "MANUAL_BY_TOPIC", "AUTOMATIC")

\* C25 as stated: qos_profile_check_compatible yields the verdict OK if and
\* only if none of the seven rows of errors matches the pair.
C25_OkIffNoErrorRow ==
  Checked =>
    (QosReturned.compatibility = "RMW_QOS_COMPATIBILITY_OK"
       <=> ErrorRowsMatching(QosCalled.publisher_qos, QosCalled.subscription_qos) = {})

\* C25, amended: when no row of errors matches the pair the verdict is OK or
\* WARNING, and it is OK if and only if neither a row of errors nor a case
\* of warning matches the pair.
C25_OkIffNoRowAtAll ==
  Checked =>
    LET p == QosCalled.publisher_qos
        s == QosCalled.subscription_qos
    IN /\ QosReturned.compatibility \in
            {"RMW_QOS_COMPATIBILITY_OK", "RMW_QOS_COMPATIBILITY_WARNING"}
          <=> ErrorRowsMatching(p, s) = {}
       /\ QosReturned.compatibility = "RMW_QOS_COMPATIBILITY_OK"
          <=> (ErrorRowsMatching(p, s) = {} /\ ~WarningCase(p, s))

\* A pair that no row of errors matches, with a deadline on both sides, was
\* checked and found OK; the caller's buffer was emptied.
C25_Witness ==
  /\ Checked
  /\ ~IsDefaultDuration(QosCalled.publisher_qos.deadline)
  /\ Shorter(QosCalled.publisher_qos.deadline, QosCalled.subscription_qos.deadline)
  /\ QosCalled.reason = StaleReason
  /\ QosReturned.ret = "RMW_RET_OK"
  /\ QosReturned.compatibility = "RMW_QOS_COMPATIBILITY_OK"
  /\ QosReturned.reason = [text |-> <<>>]

\* The texts that begin with "ERROR:".
ErrorTexts ==
  {"ERROR: Best effort publisher and reliable subscription;",
   "ERROR: Volatile publisher and transient local subscription;",
   "ERROR: Subscription has a deadline, but publisher does not;",
   "ERROR: Subscription deadline is less than publisher deadline;",
   "ERROR: Publisher's liveliness is automatic and subscription's is manual by topic;",
   "ERROR: Subscription has a liveliness lease duration, but publisher does not;",
   "ERROR: Subscription liveliness lease duration is less than publisher;"}

\* C26: the verdict is ERROR if and only if at least one of the seven rows
\* matches the pair; every matching row is evaluated and leaves its text in
\* the reason buffer, an earlier ERROR stopping none of the later rows; and
\* the verdict stays ERROR where a case of warning matches as well.
C26_ErrorIffSomeRow ==
  Checked =>
    LET rows == ErrorRowsMatching(QosCalled.publisher_qos, QosCalled.subscription_qos)
    IN /\ QosReturned.compatibility = "RMW_QOS_COMPATIBILITY_ERROR" <=> rows # {}
       /\ (/\ rows # {}
           /\ QosReturned.ret = "RMW_RET_OK"
           /\ QosCalled.reason # NULL
           /\ QosCalled.reason_size # 0)
          => /\ Len(QosReturned.reason.text) = Cardinality(rows)
             /\ \A i \in 1..Len(QosReturned.reason.text) :
                  QosReturned.reason.text[i] \in ErrorTexts

\* Several rows of errors and a case of warning match the pair; the verdict
\* is ERROR and every matching row has left its text.
C26_Witness ==
  /\ Checked
  /\ QosReturned.ret = "RMW_RET_OK"
  /\ Cardinality(ErrorRowsMatching(QosCalled.publisher_qos, QosCalled.subscription_qos)) >= 2
  /\ WarningCase(QosCalled.publisher_qos, QosCalled.subscription_qos)
  /\ QosReturned.compatibility = "RMW_QOS_COMPATIBILITY_ERROR"
  /\ QosCalled.reason # NULL
  /\ Len(QosReturned.reason.text) >= 2

\* C27: the verdict is WARNING if and only if no row of errors matches and,
\* for reliability, durability or liveliness, the publisher is unresolved
\* and the subscription is RELIABLE / TRANSIENT_LOCAL / MANUAL_BY_TOPIC, or
\* the publisher is BEST_EFFORT / VOLATILE / AUTOMATIC and the subscription
\* unresolved, or both are unresolved; an unresolved side against any other
\* value warns of nothing.
C27_WarningIffUnresolved ==
  Checked =>
    LET p == QosCalled.publisher_qos
        s == QosCalled.subscription_qos
    IN /\ QosReturned.compatibility = "RMW_QOS_COMPATIBILITY_WARNING"
          <=> (ErrorRowsMatching(p, s) = {} /\ WarningCase(p, s))
       /\ (/\ ErrorRowsMatching(p, s) = {}
           /\ Unresolved(s.reliability) => p.reliability = "RELIABLE"
           /\ Unresolved(p.reliability) => s.reliability = "BEST_EFFORT"
           /\ Unresolved(s.durability) => p.durability = "TRANSIENT_LOCAL"
           /\ Unresolved(p.durability) => s.durability = "VOLATILE"
           /\ Unresolved(s.liveliness) => p.liveliness = "MANUAL_BY_TOPIC"
           /\ Unresolved(p.liveliness) => s.liveliness = "AUTOMATIC")
          => QosReturned.compatibility = "RMW_QOS_COMPATIBILITY_OK"

\* An unresolved publisher was checked against a RELIABLE subscription, no
\* row of errors matching: the verdict is WARNING.
C27_Witness ==
  /\ Checked
  /\ Unresolved(QosCalled.publisher_qos.reliability)
  /\ QosCalled.subscription_qos.reliability = "RELIABLE"
  /\ ~Unresolved(QosCalled.publisher_qos.durability)
  /\ QosReturned.compatibility = "RMW_QOS_COMPATIBILITY_WARNING"
  /\ Len(QosReturned.reason.text) = 1

(***************************************************************************)
(* Resolution of BEST_AVAILABLE.                                           *)
(***************************************************************************)
\* The named function has returned RMW_RET_OK.
Resolved(name) == QosCalled.name = name /\ QosReturned.ret = "RMW_RET_OK"

\* The profiles of the endpoints given to the call.
PeersGiven ==
  {QosCalled.endpoints_info.info_array[i].qos_profile : i \in 1..QosCalled.endpoints_info.size}

IsBestAvailableDuration(d) == Digits(d) = <<9, 223372036, 0, 854775806>>

\* The durations of the peers' policy that are not DEFAULT.
DurationsSet(peers, policy) == {p[policy] : p \in peers} \ {d \in Durations : IsDefaultDuration(d)}

IsLongest(d, S) == d \in S /\ \A e \in S : ~Shorter(d, e)
IsShortest(d, S) == d \in S /\ \A e \in S : ~Shorter(e, d)

\* policy of the requested profile was BEST_AVAILABLE and is now value.
Replaced(policy, value) ==
  QosCalled.profile[policy] = "BEST_AVAILABLE" => QosReturned.profile[policy] = value

\* C28: for every array of publishers, a policy of the subscription that is
\* BEST_AVAILABLE on entry becomes: reliability RELIABLE iff all publishers
\* are RELIABLE, else BEST_EFFORT; durability TRANSIENT_LOCAL iff all are
\* TRANSIENT_LOCAL, else VOLATILE; liveliness MANUAL_BY_TOPIC iff all are
\* MANUAL_BY_TOPIC, else AUTOMATIC; deadline and lease DEFAULT iff every
\* publisher's is DEFAULT, else the longest (seconds, then nanoseconds) of
\* the publishers' that are not DEFAULT.
C28_SubscriptionRules ==
  Resolved("qos_profile_get_best_available_for_subscription") =>
    /\ Replaced("reliability",
                IF \A p \in PeersGiven : p.reliability = "RELIABLE"
                THEN "RELIABLE" ELSE "BEST_EFFORT")
    /\ Replaced("durability",
                IF \A p \in PeersGiven : p.durability = "TRANSIENT_LOCAL"
                THEN "TRANSIENT_LOCAL" ELSE "VOLATILE")
    /\ Replaced("liveliness",
                IF \A p \in PeersGiven : p.liveliness = "MANUAL_BY_TOPIC"
                THEN "MANUAL_BY_TOPIC" ELSE "AUTOMATIC")
    /\ \A policy \in {"deadline", "liveliness_lease_duration"} :
         IsBestAvailableDuration(QosCalled.profile[policy]) =>
           IF DurationsSet(PeersGiven, policy) = {}
           THEN IsDefaultDuration(QosReturned.profile[policy])
           ELSE IsLongest(QosReturned.profile[policy], DurationsSet(PeersGiven, policy))

\* A subscription with every policy BEST_AVAILABLE was resolved against two
\* publishers, one RELIABLE and one not, whose deadlines differ and the
\* second of which is the longer: it is BEST_EFFORT with the second deadline.
C28_Witness ==
  /\ Resolved("qos_profile_get_best_available_for_subscription")
  /\ QosCalled.profile = BestAvailableProfile
  /\ QosCalled.endpoints_info.size = 2
  /\ \E p \in PeersGiven : p.reliability = "RELIABLE"
  /\ \E p \in PeersGiven : p.reliability # "RELIABLE"
  /\ Shorter(QosCalled.endpoints_info.info_array[1].qos_profile.deadline,
             QosCalled.endpoints_info.info_array[2].qos_profile.deadline)
  /\ ~IsDefaultDuration(QosCalled.endpoints_info.info_array[1].qos_profile.deadline)
  /\ QosReturned.profile.reliability = "BEST_EFFORT"
  /\ QosReturned.profile.deadline = QosCalled.endpoints_info.info_array[2].qos_profile.deadline

\* C29 as stated: with an empty array of publishers every BEST_AVAILABLE
\* policy of the subscription becomes BEST_EFFORT, VOLATILE, AUTOMATIC,
\* DEFAULT deadline and DEFAULT lease.
C29_EmptyResolvesWeakest ==
  (Resolved("qos_profile_get_best_available_for_subscription")
     /\ QosCalled.endpoints_info.size = 0) =>
    /\ Replaced("reliability", "BEST_EFFORT")
    /\ Replaced("durability", "VOLATILE")
    /\ Replaced("liveliness", "AUTOMATIC")
    /\ \A policy \in {"deadline", "liveliness_lease_duration"} :
         IsBestAvailableDuration(QosCalled.profile[policy]) =>
           IsDefaultDuration(QosReturned.profile[policy])

\* C29, amended: with an empty array of publishers every BEST_AVAILABLE
\* policy of the subscription becomes RELIABLE, TRANSIENT_LOCAL,
\* MANUAL_BY_TOPIC, DEFAULT deadline and DEFAULT lease.
C29_EmptyResolvesStrongest ==
  (Resolved("qos_profile_get_best_available_for_subscription")
     /\ QosCalled.endpoints_info.size = 0) =>
    /\ Replaced("reliability", "RELIABLE")
    /\ Replaced("durability", "TRANSIENT_LOCAL")
    /\ Replaced("liveliness", "MANUAL_BY_TOPIC")
    /\ \A policy \in {"deadline", "liveliness_lease_duration"} :
         IsBestAvailableDuration(QosCalled.profile[policy]) =>
           IsDefaultDuration(QosReturned.profile[policy])

\* A subscription with every policy BEST_AVAILABLE was resolved against no
\* publisher at all.
C29_Witness ==
  /\ Resolved("qos_profile_get_best_available_for_subscription")
  /\ QosCalled.endpoints_info.size = 0
  /\ QosCalled.profile = BestAvailableProfile
  /\ QosReturned.profile.reliability = "RELIABLE"
  /\ IsDefaultDuration(QosReturned.profile.deadline)

\* C30: for every array of subscriptions, the empty one included, a policy
\* of the publisher that is BEST_AVAILABLE on entry becomes: reliability
\* RELIABLE; durability TRANSIENT_LOCAL; liveliness MANUAL_BY_TOPIC if some
\* subscription is MANUAL_BY_TOPIC, else AUTOMATIC; deadline and lease
\* DEFAULT iff every subscription's is DEFAULT, else the shortest of the
\* subscriptions' that are not DEFAULT.
C30_PublisherRules ==
  Resolved("qos_profile_get_best_available_for_publisher") =>
    /\ Replaced("reliability", "RELIABLE")
    /\ Replaced("durability", "TRANSIENT_LOCAL")
    /\ Replaced("liveliness",
                IF \E s \in PeersGiven : s.liveliness = "MANUAL_BY_TOPIC"
                THEN "MANUAL_BY_TOPIC" ELSE "AUTOMATIC")
    /\ \A policy \in {"deadline", "liveliness_lease_duration"} :
         IsBestAvailableDuration(QosCalled.profile[policy]) =>
           IF DurationsSet(PeersGiven, policy) = {}
           THEN IsDefaultDuration(QosReturned.profile[policy])
           ELSE IsShortest(QosReturned.profile[policy], DurationsSet(PeersGiven, policy))

(***************************************************************************)
(* Resolution followed by the compatibility check.                         *)
(***************************************************************************)
\* The verdict of qos_profile_check_compatible on the pair, asked without a
\* reason buffer.
Verdict(publisher_qos, subscription_qos) ==
  qos_profile_check_compatible(publisher_qos, subscription_qos, TRUE, NULL, 0, 0).compatibility

\* C31: a subscription whose five policies are all BEST_AVAILABLE, once
\* resolved against an array of publishers, is found other than ERROR by
\* qos_profile_check_compatible against every publisher of the array.
C31_ResolvedSubscriptionMatchesAll ==
  (Resolved("qos_profile_get_best_available_for_subscription")
     /\ QosCalled.profile = BestAvailableProfile) =>
    \A p \in PeersGiven :
      Verdict(p, QosReturned.profile) # "RMW_QOS_COMPATIBILITY_ERROR"

\* C32: a publisher whose five policies are all BEST_AVAILABLE, once
\* resolved against an array of subscriptions, is found other than ERROR by
\* qos_profile_check_compatible against every subscription of the array.
C32_ResolvedPublisherMatchesAll ==
  (Resolved("qos_profile_get_best_available_for_publisher")
     /\ QosCalled.profile = BestAvailableProfile) =>
    \A s \in PeersGiven :
      Verdict(QosReturned.profile, s) # "RMW_QOS_COMPATIBILITY_ERROR"

\* A publisher with every policy BEST_AVAILABLE was resolved against two
\* subscriptions with different deadlines, one of them BEST_EFFORT and
\* AUTOMATIC, the other MANUAL_BY_TOPIC: it took the shorter deadline and
\* is compatible with both.
C32_Witness ==
  /\ Resolved("qos_profile_get_best_available_for_publisher")
  /\ QosCalled.profile = BestAvailableProfile
  /\ QosCalled.endpoints_info.size = 2
  /\ \E s \in PeersGiven : s.reliability = "BEST_EFFORT" /\ s.liveliness = "AUTOMATIC"
  /\ \E s \in PeersGiven : s.liveliness = "MANUAL_BY_TOPIC"
  /\ \E s \in PeersGiven : Shorter(QosReturned.profile.deadline, s.deadline)
  /\ ~IsDefaultDuration(QosReturned.profile.deadline)
  /\ \A s \in PeersGiven : Verdict(QosReturned.profile, s) = "RMW_QOS_COMPATIBILITY_OK"

(***************************************************************************)
(* What a resolution leaves in the profile.                                *)
(***************************************************************************)
ResolutionReturned ==
  \/ Resolved("qos_profile_get_best_available_for_subscription")
  \/ Resolved("qos_profile_get_best_available_for_publisher")
  \/ Resolved("qos_profile_update_best_available_for_services")

\* The policies of the profile that hold their BEST_AVAILABLE sentinel.
BestAvailablePolicies(profile) ==
  {policy \in {"reliability", "durability", "liveliness"} : profile[policy] = "BEST_AVAILABLE"}
  \cup {policy \in {"deadline", "liveliness_lease_duration"} :
          IsBestAvailableDuration(profile[policy])}

\* C33: after a resolution for a subscription, for a publisher or for
\* services has returned successfully, none of the five negotiable
\* policies of the resulting profile holds its BEST_AVAILABLE sentinel,
\* whatever the profiles of the peers hold.
C33_NoSentinelLeft ==
  ResolutionReturned => BestAvailablePolicies(QosReturned.profile) = {}

\* C34: a resolution for a subscription, for a publisher or for services
\* changes none of the fields of the profile but the negotiable policies
\* that held their BEST_AVAILABLE sentinel on entry: history, depth and
\* lifespan, and every negotiable policy with another value, are after the
\* call what they were before it.
C34_OnlyBestAvailableChanged ==
  ResolutionReturned =>
    \A field \in DOMAIN QosCalled.profile \ BestAvailablePolicies(QosCalled.profile) :
      QosReturned.profile[field] = QosCalled.profile[field]

\* A subscription with KEEP_ALL history, a lifespan, and reliability and
\* deadline BEST_AVAILABLE was resolved against a BEST_EFFORT publisher
\* with a deadline: reliability and deadline were replaced, nothing else.
C34_Witness ==
  /\ Resolved("qos_profile_get_best_available_for_subscription")
  /\ QosCalled.profile = KeepAllProfile
  /\ QosCalled.endpoints_info.size >= 1
  /\ QosReturned.profile.reliability = "BEST_EFFORT"
  /\ ~IsDefaultDuration(QosReturned.profile.deadline)
  /\ ~IsBestAvailableDuration(QosReturned.profile.deadline)
  /\ QosReturned.profile.history = "KEEP_ALL"
  /\ QosReturned.profile.durability = "TRANSIENT_LOCAL"
  /\ \E p \in PeersGiven : p.durability = "VOLATILE"

(***************************************************************************)
(* Resolution against the endpoints of a topic.                            *)
(***************************************************************************)
\* One of the two functions was called with a node, a topic name and a
\* profile.
TopicResolutionCalled ==
  /\ QosCalled.name \in {"qos_profile_get_best_available_for_topic_subscription",
                         "qos_profile_get_best_available_for_topic_publisher"}
  /\ QosCalled.node # NULL
  /\ QosCalled.topic_name # NULL
  /\ QosCalled.profile # NULL

\* The resolution that belongs to the function called, on the array the
\* enumeration has filled.
CorrespondingResolution ==
  IF QosCalled.name = "qos_profile_get_best_available_for_topic_subscription"
  THEN qos_profile_get_best_available_for_subscription(QosCalled.endpoints_info,
                                                       QosCalled.profile)
  ELSE qos_profile_get_best_available_for_publisher(QosCalled.endpoints_info,
                                                    QosCalled.profile)

\* C35: qos_profile_get_best_available_for_topic_subscription and
\* _publisher return OK without calling the enumerator and leave the
\* profile unchanged if it holds no BEST_AVAILABLE policy; otherwise they
\* call the enumerator exactly once, return its status with the profile
\* unchanged if that is not OK, and else leave the profile that the
\* corresponding resolution yields on the enumerated array, which they
\* finalize exactly once.
C35_TopicResolution ==
  TopicResolutionCalled =>
    IF BestAvailablePolicies(QosCalled.profile) = {}
    THEN /\ QosReturned.ret = "RMW_RET_OK"
         /\ QosReturned.get_endpoint_info_calls = 0
         /\ QosReturned.fini_calls = 0
         /\ QosReturned.profile = QosCalled.profile
    ELSE /\ QosReturned.get_endpoint_info_calls = 1
         /\ IF QosCalled.get_endpoint_info.ret # "RMW_RET_OK"
            THEN /\ QosReturned.ret = QosCalled.get_endpoint_info.ret
                 /\ QosReturned.profile = QosCalled.profile
                 /\ QosReturned.fini_calls = 0
            ELSE /\ QosReturned.profile = CorrespondingResolution.profile
                 /\ QosReturned.fini_calls = 1
                 /\ QosCalled.fini_ret = "RMW_RET_OK" => QosReturned.ret = "RMW_RET_OK"

\* A publisher with every policy BEST_AVAILABLE was resolved against the
\* two subscriptions its enumerator found, one of them MANUAL_BY_TOPIC: one
\* enumeration, one finalization, and the profile is resolved.
C35_Witness ==
  /\ TopicResolutionCalled
  /\ QosCalled.name = "qos_profile_get_best_available_for_topic_publisher"
  /\ QosCalled.profile = BestAvailableProfile
  /\ QosCalled.get_endpoint_info.ret = "RMW_RET_OK"
  /\ QosCalled.endpoints_info.size = 2
  /\ \E s \in PeersGiven : s.liveliness = "MANUAL_BY_TOPIC"
  /\ QosReturned.ret = "RMW_RET_OK"
  /\ QosReturned.get_endpoint_info_calls = 1
  /\ QosReturned.fini_calls = 1
  /\ QosReturned.profile.liveliness = "MANUAL_BY_TOPIC"
  /\ QosReturned.profile.reliability = "RELIABLE"

(***************************************************************************)
(* Services.                                                               *)
(***************************************************************************)
ServicesUpdated == QosCalled.name = "qos_profile_update_best_available_for_services"

\* The value of the policy in the services default profile of rmw.
ServicesDefault(policy) ==
  CASE policy = "reliability" -> "RELIABLE"
    [] policy = "durability" -> "VOLATILE"
    [] policy = "liveliness" -> "SYSTEM_DEFAULT"
    [] policy = "deadline" -> Time(0, 0)
    [] policy = "liveliness_lease_duration" -> Time(0, 0)

\* C36: qos_profile_update_best_available_for_services returns the profile
\* it is given with every negotiable policy that is BEST_AVAILABLE replaced
\* by that policy of the services default (RELIABLE, VOLATILE, liveliness
\* SYSTEM_DEFAULT, no deadline, no lease) and every other field as it is;
\* no peer is consulted, and the operation applied to its result returns
\* the result.
C36_ServicesDefaults ==
  ServicesUpdated =>
    /\ \A field \in DOMAIN QosCalled.profile :
         QosReturned.profile[field] =
           IF field \in BestAvailablePolicies(QosCalled.profile)
           THEN ServicesDefault(field) ELSE QosCalled.profile[field]
    /\ qos_profile_update_best_available_for_services(QosReturned.profile)
         = QosReturned.profile

\* A profile with every policy BEST_AVAILABLE, KEEP_ALL history and a
\* lifespan was updated: it is RELIABLE and VOLATILE, with its history.
C36_Witness ==
  /\ ServicesUpdated
  /\ BestAvailablePolicies(QosCalled.profile) =
       {"reliability", "durability", "liveliness", "deadline", "liveliness_lease_duration"}
  /\ QosCalled.profile.history = "KEEP_ALL"
  /\ QosReturned.profile.reliability = "RELIABLE"
  /\ QosReturned.profile.durability = "VOLATILE"
  /\ QosReturned.profile.liveliness = "SYSTEM_DEFAULT"
  /\ IsDefaultDuration(QosReturned.profile.deadline)
  /\ QosReturned.profile.history = "KEEP_ALL"

(***************************************************************************)
(* The clamp to the range of a DDS duration.                               *)
(***************************************************************************)
Clamped == QosCalled.name = "clamp_rmw_time_to_dds_time"

\* The length of a time in nanoseconds, in four digits to the base 10^9:
\* the seconds moved up by one digit, plus the nanoseconds, with carries.
TotalLength(time) ==
  LET low == time.sec[3] + time.nsec[2]
      mid == time.sec[2] + time.nsec[1] + (low \div sec_to_ns)
  IN <<time.sec[1] + (mid \div sec_to_ns), mid % sec_to_ns, low % sec_to_ns, time.nsec[3]>>

\* INT_MAX seconds and 10^9 - 1 nanoseconds, the longest that DDS holds.
LongestLength == <<0, 2, 147483647, 999999999>>

\* C37: what clamp_rmw_time_to_dds_time returns has sec <= INT_MAX and
\* nsec < 10^9; it has the length of the input (the whole seconds of nsec
\* carried into sec) if that is at most INT_MAX seconds and 10^9 - 1
\* nanoseconds, and is exactly (INT_MAX, 10^9 - 1) otherwise; and no
\* unsigned operation on the way wraps around: ns_sec_adjust is at most
\* INT_MAX where it is subtracted from INT_MAX, sec is at most the
\* difference where ns_sec_adjust is added to it, and ns_sec_adjust is the
\* whole quotient where its product is subtracted from nsec.
C37_ClampedToDds ==
  Clamped =>
    LET time == QosCalled.time
        t == QosReturned
        locals == ClampLocals(time)
    IN /\ t.sec[1] = 0 /\ ~LexLess(Pair(INT_MAX), <<t.sec[2], t.sec[3]>>)
       /\ t.nsec[1] = 0 /\ t.nsec[2] = 0 /\ t.nsec[3] \in 0..(sec_to_ns - 1)
       /\ IF LexLess(LongestLength, TotalLength(time))
          THEN TotalLength(t) = LongestLength
          ELSE TotalLength(t) = TotalLength(time)
       /\ locals.ns_sec_adjust \in 0..INT_MAX
       /\ locals.limit \in 0..INT_MAX
       /\ ~locals.overflow_sec =>
            time.sec[1] = 0 /\ ~LexLess(Pair(locals.limit), <<time.sec[2], time.sec[3]>>)
       /\ ~(locals.overflow_nsec \/ locals.overflow_sec) =>
            Pair(locals.ns_sec_adjust) = <<time.nsec[1], time.nsec[2]>>

\* A time of INT_MAX - 1 seconds and a little more than one second of
\* nanoseconds was clamped: the second was carried and nothing cut.
C37_Witness ==
  /\ Clamped
  /\ QosCalled.time.sec = <<0, 2, 147483646>>
  /\ QosCalled.time.nsec = <<0, 1, 1>>
  /\ QosReturned.sec = <<0, 2, 147483647>>
  /\ QosReturned.nsec = <<0, 0, 1>>

(***************************************************************************)
(* The three maps of the cache.                                            *)
(***************************************************************************)
\* C38: add_writer, add_reader, remove_writer and remove_reader leave the
\* participants map as it was (a removed writer stays in every
\* writer_gid_seq that lists it), and add_participant, remove_participant,
\* update_participant_entities, add_node, remove_node, associate_* and
\* dissociate_* leave the writers map and the readers map as they were (an
\* associated gid needs no endpoint record and gets none).
C38_PlanesIndependent ==
  [][\A t \in Threads :
       (Executes(t) /\ IsMutation(cur[t].op)) =>
         IF IsEndpointCall(cur[t].op)
         THEN participants_' = participants_
         ELSE data_writers_' = data_writers_ /\ data_readers_' = data_readers_]_vars

\* remove_writer has erased the record of a writer that a node of a
\* participant lists: the node lists it still.
C38_Witness ==
  /\ pc["t1"] = "unlock"
  /\ cur["t1"].op.name = "remove_writer"
  /\ cur["t1"].ret = TRUE
  /\ cur["t1"].op.gid \notin DOMAIN data_writers_
  /\ \E G \in DOMAIN participants_ : ListingNodes(G, cur["t1"].op.gid, FALSE) # {}

(***************************************************************************)
(* Attribution of an endpoint to a node.                                   *)
(***************************************************************************)
\* Writer W is listed where the lookup must not find it: as writer by a
\* node of a participant other than the one of its EntityInfo, or as reader
\* by a node of its own participant; and no node of its own participant
\* lists it as writer.
ListedElsewhere(W) ==
  LET G1 == data_writers_[W].participant_gid
  IN /\ \/ \E G2 \in DOMAIN participants_ \ {G1} : ListingNodes(G2, W, FALSE) # {}
        \/ G1 \in DOMAIN participants_ /\ ListingNodes(G1, W, TRUE) # {}
     /\ G1 \in DOMAIN participants_ => ListingNodes(G1, W, FALSE) = {}

\* Every element of the array that reports a writer listed elsewhere
\* carries the placeholder that belongs to the writer's own participant;
\* and each such writer of the topic is reported.
PlaceholdersFor(info_array, topic_name) ==
  \A W \in DOMAIN data_writers_ :
    (ListedElsewhere(W) /\ data_writers_[W].topic_name = topic_name) =>
      /\ \E i \in 1..Len(info_array) : info_array[i].endpoint_gid = W
      /\ \A i \in 1..Len(info_array) :
           info_array[i].endpoint_gid = W =>
             <<info_array[i].node_name, info_array[i].node_namespace>> =
               IF data_writers_[W].participant_gid \in DOMAIN participants_
               THEN <<"_NODE_NAME_UNKNOWN_", "_NODE_NAMESPACE_UNKNOWN_">>
               ELSE <<"_CREATED_BY_BARE_DDS_APP_", "_CREATED_BY_BARE_DDS_APP_">>

\* C39: a writer W whose EntityInfo names participant G1 and that is listed
\* as writer by a node of another participant, or only as reader by a node
\* of G1, is reported by get_writers_info_by_topic with
\* "_NODE_NAME_UNKNOWN_" / "_NODE_NAMESPACE_UNKNOWN_" if G1 has an entry and
\* with "_CREATED_BY_BARE_DDS_APP_" if it has none, never with the name of
\* the node that lists it: in every state of the cache and in what a call
\* has returned.
C39_AttributedThroughOwnParticipant ==
  /\ \A tn \in Topics :
       PlaceholdersFor(get_writers_info_by_topic(CacheNow, tn, "identity").ret.info_array, tn)
  /\ (pc["t1"] = "unlock" /\ cur["t1"].op.name = "get_writers_info_by_topic")
       => PlaceholdersFor(cur["t1"].ret.info_array, cur["t1"].op.topic_name)

\* get_writers_info_by_topic has returned for a writer of an absent
\* participant that a node of another participant lists as writer: the
\* writer is reported as created by a bare DDS application.
C39_Witness ==
  /\ pc["t1"] = "unlock"
  /\ cur["t1"].op.name = "get_writers_info_by_topic"
  /\ \E W \in DOMAIN data_writers_ :
       /\ ListedElsewhere(W)
       /\ data_writers_[W].topic_name = cur["t1"].op.topic_name
       /\ data_writers_[W].participant_gid \notin DOMAIN participants_
       /\ \E G2 \in DOMAIN participants_ : ListingNodes(G2, W, FALSE) # {}
       /\ \E i \in 1..Len(cur["t1"].ret.info_array) :
            /\ cur["t1"].ret.info_array[i].endpoint_gid = W
            /\ cur["t1"].ret.info_array[i].node_name = "_CREATED_BY_BARE_DDS_APP_"

\* The cache holds a writer whose participant has an entry, which a node of
\* that participant lists as reader only and a node of another participant
\* as writer: asked now, get_writers_info_by_topic reports it as of an
\* unknown node.
ListedByBoth ==
  \E W \in DOMAIN data_writers_ :
    /\ ListedElsewhere(W)
    /\ data_writers_[W].participant_gid \in DOMAIN participants_
    /\ ListingNodes(data_writers_[W].participant_gid, W, TRUE) # {}
    /\ \E G2 \in DOMAIN participants_ \ {data_writers_[W].participant_gid} :
         ListingNodes(G2, W, FALSE) # {}

(***************************************************************************)
(* Nodes of the same name in several participants.                         *)
(***************************************************************************)
\* The participants that have a node with this name and namespace.
ParticipantsWith(node) ==
  {p \in DOMAIN participants_ :
     \E i \in 1..Len(participants_[p].node_entities_info_seq) :
       /\ participants_[p].node_entities_info_seq[i].node_name = node.name
       /\ participants_[p].node_entities_info_seq[i].node_namespace = node.namespace}

\* The topic-to-types mapping of the endpoints that any node with this name
\* and namespace lists.
UnionMapping(node, is_reader, demangle_topic, demangle_type) ==
  LET entities == IF is_reader THEN data_readers_ ELSE data_writers_
      held == {g \in DOMAIN entities :
                 \E p \in ParticipantsWith(node) :
                   \E n \in ListingNodes(p, g, is_reader) :
                     /\ participants_[p].node_entities_info_seq[n].node_name = node.name
                     /\ participants_[p].node_entities_info_seq[n].node_namespace
                          = node.namespace}
      pairs == {<<Demangle(demangle_topic, entities[g].topic_name),
                  Demangle(demangle_type, entities[g].topic_type)>> : g \in held}
      kept == {pr \in pairs : pr[1] # ""}
  IN [n \in {pr[1] : pr \in kept} |-> {pr[2] : pr \in {q \in kept : q[1] = n}}]

\* What the by-node query answers in the present state of the cache.
ByNodeNow(node, is_reader) ==
  IF is_reader
  THEN get_reader_names_and_types_by_node(CacheNow, node.name, node.namespace,
                                          "ros", "ros_type", 0).ret
  ELSE get_writer_names_and_types_by_node(CacheNow, node.name, node.namespace,
                                          "ros", "ros_type", 0).ret

\* C40: when two participants each hold a node with the asked name and
\* namespace, get_writer_names_and_types_by_node and
\* get_reader_names_and_types_by_node answer with the endpoints of one node
\* only, the first matching node of the participant with the least gid, and
\* not with the union over the matching nodes: in every state of the cache
\* and in what a call has returned.
C40_FirstMatchingNodeOnly ==
  /\ \A node \in AskedNodes, is_reader \in BOOLEAN :
       Cardinality(ParticipantsWith(node)) >= 2 =>
         /\ ByNodeNow(node, is_reader).ret = "RMW_RET_OK"
         /\ HoldsMapping(ByNodeNow(node, is_reader).topic_names_and_types,
                         NodeMapping(node, is_reader, "ros", "ros_type"))
  /\ (/\ pc["t1"] = "unlock"
      /\ cur["t1"].op.name \in ByNodeQueries
      /\ Cardinality(ParticipantsWith(cur["t1"].op.node)) >= 2)
     => HoldsMapping(cur["t1"].ret.topic_names_and_types,
                     NodeMapping(cur["t1"].op.node,
                                 cur["t1"].op.name = "get_reader_names_and_types_by_node",
                                 cur["t1"].op.demangle_topic, cur["t1"].op.demangle_type))

\* Both participants have a node "talker" in "/"; the one of the
\* participant with the greater gid lists a stored writer that the other
\* does not list: asked for the writers of "talker", the cache answers
\* without that writer's topic, which the union would hold.
C40_Witness ==
  /\ ParticipantsWith(NodeT) = {P1, P2}
  /\ Compare_rmw_gid_t(P1, P2)
  /\ \E g \in DOMAIN data_writers_ :
       /\ ListingNodes(P2, g, FALSE) # {}
       /\ ListingNodes(P1, g, FALSE) = {}
       /\ Demangle("ros", data_writers_[g].topic_name) \in
            DOMAIN UnionMapping(NodeT, FALSE, "ros", "ros_type")
       /\ Demangle("ros", data_writers_[g].topic_name) \notin
            DOMAIN MappingOf(ByNodeNow(NodeT, FALSE).topic_names_and_types)
  /\ ByNodeNow(NodeT, FALSE).ret = "RMW_RET_OK"
  /\ UnionMapping(NodeT, FALSE, "ros", "ros_type") # NodeMapping(NodeT, FALSE, "ros", "ros_type")

====
